---- MODULE Spec2Model ----
(***************************************************************************)
(* Butterfly Registrator: the registration tab (class Registrator), its    *)
(* two RegisterView viewers with four control points each, the per-point   *)
(* undo/redo buttons, the control-point .csv file and batch registration.  *)
(*                                                                         *)
(* Text is a sequence of symbols (one-character strings such as "." "/"    *)
(* "|" and the digits, and multi-letter symbols such as "png" that stand   *)
(* for a run of ordinary letters).  A coordinate is an integer number of   *)
(* thousandths of a pixel, so that str() and float() are conversions       *)
(* between numbers and decimal text.                                       *)
(***************************************************************************)
EXTENDS Integers, Sequences, FiniteSets, TLC

(***************************************************************************)
(* Bounds of the model.                                                    *)
(***************************************************************************)
\* gestures of the user in one run that move control points or write files
\* (drags, field edits, loads of a control-point file, batch runs)
MaxMoves == 2
\* raw image widths and heights tried by the normalization specification
MaxDim == 5
\* number of files in a batch selection
MaxBatch == 3
\* symbols in the name of a batch file
MaxName == 5

(***************************************************************************)
(* Program constants.                                                      *)
(***************************************************************************)
n_registration_points == 4

Side == {"reference", "toregister"}
Point == 1..n_registration_points

(***************************************************************************)
(* Text.                                                                   *)
(***************************************************************************)
\* list.index(x) searched from position k; 0 stands for ValueError
IndexOf(seq, x, k) ==
    LET at == {j \in k..Len(seq) : seq[j] = x}
    IN  IF at = {} THEN 0 ELSE CHOOSE j \in at : \A m \in at : j <= m

RECURSIVE LastIndexOf(_, _, _)
\* position of the last x in seq[1..k], 0 if there is none
LastIndexOf(seq, x, k) ==
    IF k = 0 THEN 0
    ELSE IF seq[k] = x THEN k
    ELSE LastIndexOf(seq, x, k - 1)

\* os.path.basename / fullpath.split("/")[-1]
basename(path) == SubSeq(path, LastIndexOf(path, "/", Len(path)) + 1, Len(path))

RECURSIVE Join(_, _)
\* the fields of a row joined by the delimiter
Join(fields, delimiter) ==
    IF Len(fields) = 0 THEN << >>
    ELSE IF Len(fields) = 1 THEN fields[1]
    ELSE fields[1] \o <<delimiter>> \o Join(Tail(fields), delimiter)

RECURSIVE Split(_, _)
\* the fields of a non-empty line, cut at every delimiter
Split(line, delimiter) ==
    LET k == IndexOf(line, delimiter, 1)
    IN  IF k = 0 THEN <<line>>
        ELSE <<SubSeq(line, 1, k - 1)>> \o Split(SubSeq(line, k + 1, Len(line)), delimiter)

RECURSIVE replace(_, _, _)
\* str.replace(old, new) for a one-symbol old
replace(text, old, new) ==
    IF Len(text) = 0 THEN << >>
    ELSE (IF text[1] = old THEN new ELSE <<text[1]>>) \o replace(Tail(text), old, new)

\* text.split('.')[0]
before_first_dot(text) ==
    LET k == IndexOf(text, ".", 1)
    IN  IF k = 0 THEN text ELSE SubSeq(text, 1, k - 1)

(***************************************************************************)
(* Numbers and their text.                                                 *)
(***************************************************************************)
DigitSymbols == <<"0", "1", "2", "3", "4", "5", "6", "7", "8", "9">>

DigitValues ==
    "0" :> 0 @@ "1" :> 1 @@ "2" :> 2 @@ "3" :> 3 @@ "4" :> 4 @@
    "5" :> 5 @@ "6" :> 6 @@ "7" :> 7 @@ "8" :> 8 @@ "9" :> 9

DigitValue(c) == DigitValues[c]

IsDigit(c) == c \in DOMAIN DigitValues

RECURSIVE Digits(_)
\* decimal digits of a natural number
Digits(n) ==
    IF n < 10 THEN <<DigitSymbols[n + 1]>>
    ELSE Digits(n \div 10) \o <<DigitSymbols[(n % 10) + 1]>>

RECURSIVE StripZeros(_)
\* drop trailing zeros of a fraction, keeping one digit
StripZeros(ds) ==
    IF Len(ds) > 1 /\ ds[Len(ds)] = "0" THEN StripZeros(SubSeq(ds, 1, Len(ds) - 1))
    ELSE ds

Abs(v) == IF v < 0 THEN 0 - v ELSE v

\* the three fraction digits of a value in thousandths
Frac3(v) ==
    LET f == Abs(v) % 1000
    IN  <<DigitSymbols[(f \div 100) + 1], DigitSymbols[((f \div 10) % 10) + 1],
          DigitSymbols[(f % 10) + 1]>>

\* '{0:0.2f}'.format(v): two decimals, round half to even (display precision)
FormatTwoDecimals(v) ==
    LET a == Abs(v)
        q == a \div 10
        r == a % 10
        h == IF r > 5 \/ (r = 5 /\ q % 2 = 1) THEN q + 1 ELSE q
    IN  (IF v < 0 THEN <<"-">> ELSE << >>)
        \o Digits(h \div 100) \o <<".">>
        \o <<DigitSymbols[((h \div 10) % 10) + 1], DigitSymbols[(h % 10) + 1]>>

\* str(v) of a float, as csv.writer writes a non-string field: the shortest
\* decimal text that reads back as v
str(v) ==
    (IF v < 0 THEN <<"-">> ELSE << >>)
    \o Digits(Abs(v) \div 1000) \o <<".">> \o StripZeros(Frac3(v))

RECURSIVE DigitsValueUpTo(_, _)
\* the number written by the first n digits of ds
DigitsValueUpTo(ds, n) ==
    IF n = 0 THEN 0 ELSE 10 * DigitsValueUpTo(ds, n - 1) + DigitValue(ds[n])

DigitsValue(ds) == DigitsValueUpTo(ds, Len(ds))

AllDigits(ds) == \A k \in 1..Len(ds) : IsDigit(ds[k])

\* the parts of a numeral: sign, integer digits, fraction digits
numeral(text) ==
    LET neg  == Len(text) > 0 /\ text[1] = "-"
        body == IF neg THEN Tail(text) ELSE text
        dot  == IndexOf(body, ".", 1)
    IN  [neg |-> neg,
         ip  |-> IF dot = 0 THEN body ELSE SubSeq(body, 1, dot - 1),
         fp  |-> IF dot = 0 THEN << >> ELSE SubSeq(body, dot + 1, Len(body))]

\* float(text) raises ValueError: text is not [-]digits[.digits].  The model
\* holds fractions of up to three digits.
float_raises(text) ==
    LET n == numeral(text)
    IN  Len(n.ip) + Len(n.fp) = 0 \/ ~AllDigits(n.ip) \/ ~AllDigits(n.fp) \/ Len(n.fp) > 3

\* float(text), in thousandths
float(text) ==
    LET n == numeral(text)
        pad == n.fp \o SubSeq(<<"0", "0", "0">>, 1, 3 - Len(n.fp))
    IN  (IF n.neg THEN -1 ELSE 1) * (1000 * DigitsValue(n.ip) + DigitsValue(pad))

(***************************************************************************)
(* The control-point .csv file: a sequence of lines, each the fields of a  *)
(* row joined by "|" (csv.writer / csv.reader with delimiter "|").  No     *)
(* field of the model holds a "|", a quote or a line break, so no field is *)
(* quoted.                                                                 *)
(***************************************************************************)
\* csv_writer.writerow(row)
writerow(row) == Join(row, "|")

\* one row of list(csv.reader(csv_file, delimiter="|")): an empty line is []
readrow(line) == IF Len(line) = 0 THEN << >> ELSE Split(line, "|")

csv_list_of(lines) == [k \in 1..Len(lines) |-> readrow(lines[k])]

\* None, the empty string and the empty list
None == << >>

Min(a, b) == IF a < b THEN a ELSE b

version == <<"1", ".", "0">>

\* the quantity a point row holds, as csv.writer writes it
field_text_as_display(v) == FormatTwoDecimals(v)

field_text(v) == str(v)

\* Registrator.save_points: the lines written to fullpath, or None when
\* an input is missing or the two point lists differ in length
save_points(filename_reference, points_reference_arg, filename_toregister, points_toregister_arg) ==
    IF \/ filename_reference = None
       \/ points_reference_arg = None
       \/ filename_toregister = None
       \/ points_toregister_arg = None
    THEN None
    ELSE IF Len(points_reference_arg) # Len(points_toregister_arg)
    THEN None
    ELSE LET header == << <<<<"Butterfly Registrator">>>>,
                          <<version>>,
                          <<<<"control points">>>>,
                          <<<<"Assumes moving image(s) resized and padded to match target image dimensions">>>>,
                          <<<<"target">>>>,
                          <<filename_reference>>,
                          <<<<"moving">>>>,
                          filename_toregister,
                          << <<"x">>, <<"y">>, <<"x">>, <<"y">> >> >>
             n == Len(points_reference_arg)
             rows == [k \in 1..n |->
                        << field_text(points_reference_arg[k][1]),
                           field_text(points_reference_arg[k][2]),
                           field_text(points_toregister_arg[k][1]),
                           field_text(points_toregister_arg[k][2]) >>]
         IN  [k \in 1..Len(header) |-> writerow(header[k])]
             \o [k \in 1..n |-> writerow(rows[k])]

AcceptRole == "AcceptRole"
RejectRole == "RejectRole"

RECURSIVE read_pairs(_, _, _, _)
\* the loop over csv_list[i:] of load_points; exc names the exception that
\* ends it (a row too short: IndexError; a field float() rejects: ValueError)
read_pairs(rows, skip_reference, skip_toregister, acc) ==
    IF Len(rows) = 0 \/ acc.exc # "none" THEN acc
    ELSE LET row == rows[1]
             needs == IF skip_reference THEN 0 ELSE IF skip_toregister THEN 2 ELSE 4
             bad == {k \in 1..needs : k > Len(row) \/ float_raises(row[k])} \cup {needs + 1}
             first_bad == CHOOSE k \in bad : \A j \in bad : k <= j
             exc == IF first_bad = needs + 1 THEN "none"
                    ELSE IF first_bad > Len(row) THEN "IndexError" ELSE "ValueError"
             next == IF exc # "none" THEN [acc EXCEPT !.exc = exc]
                     ELSE IF skip_reference THEN acc
                     ELSE IF skip_toregister
                     THEN [acc EXCEPT !.points_reference =
                                 Append(@, <<float(row[1]), float(row[2])>>)]
                     ELSE [acc EXCEPT !.points_reference =
                                 Append(@, <<float(row[1]), float(row[2])>>),
                                      !.points_toregister =
                                 Append(@, <<float(row[3]), float(row[4])>>)]
         IN  read_pairs(Tail(rows), skip_reference, skip_toregister, next)

\* the first row that begins with the field "target", whatever follows it
index_of_target_field(csv_list) ==
    LET at == {k \in 1..Len(csv_list) :
                  Len(csv_list[k]) > 0 /\ csv_list[k][1] = <<"target">>}
    IN  IF at = {} THEN 0 ELSE CHOOSE k \in at : \A m \in at : k <= m

\* csv_list.index(["target"]); 0 stands for ValueError
index_of_target(csv_list) == IndexOf(csv_list, << <<"target">> >>, 1)

BoxInvalid == "Invalid .csv control point file"
BoxMismatchTarget == "Filename mismatch target image"
BoxMismatchMoving == "Filename mismatch moving image"

\* Registrator.load_points; lines is what the file at fullpath holds, and
\* response_reference / response_toregister are the buttons the user presses
\* if a mismatch box is shown
load_points(fullpath, lines, filename_reference, filename_toregister, response_reference, response_toregister) ==
    LET empty == [points_reference |-> << >>, points_toregister |-> << >>,
                  boxes |-> {}, exc |-> "none"]
    IN
    IF fullpath = None THEN empty
    ELSE
    LET csv_list == csv_list_of(lines)
        t == index_of_target(csv_list)
    IN
    IF t = 0 THEN [empty EXCEPT !.boxes = {BoxInvalid}]
    ELSE
    LET i1 == t + 1
    IN
    IF i1 > Len(csv_list) \/ Len(csv_list[i1]) = 0
    THEN [empty EXCEPT !.exc = "IndexError"]
    ELSE
    LET mismatch_reference == csv_list[i1][1] # filename_reference
        skip_reference == mismatch_reference /\ response_reference # AcceptRole
        boxes1 == IF mismatch_reference THEN {BoxMismatchTarget} ELSE {}
        i2 == i1 + 2
    IN
    IF i2 > Len(csv_list)
    THEN [empty EXCEPT !.exc = "IndexError", !.boxes = boxes1]
    ELSE
    LET mismatch_toregister == IndexOf(csv_list[i2], filename_toregister, 1) = 0
        skip_toregister == mismatch_toregister /\ response_toregister # AcceptRole
        boxes2 == boxes1 \cup (IF mismatch_toregister THEN {BoxMismatchMoving} ELSE {})
        i3 == i2 + 2
        got == read_pairs(SubSeq(csv_list, i3, Len(csv_list)),
                          skip_reference, skip_toregister, empty)
    IN  [got EXCEPT !.boxes = boxes2]

(***************************************************************************)
(* Resizing and padding the moving image onto the target's canvas.         *)
(* Python's w/h is a float; int() drops the fraction.  The quotients are   *)
(* computed here exactly (as rationals) and then truncated.                *)
(***************************************************************************)
\* aspect_toregister > aspect_reference
is_wider(w, h, W, H) == w * H > W * h

\* the resized dimensions with the quotient rounded to the nearest integer
\* (half to even) instead of truncated
resize_dims_rounded(w, h, W, H) ==
    LET round(a, b) == IF 2 * (a % b) > b \/ (2 * (a % b) = b /\ (a \div b) % 2 = 1)
                       THEN (a \div b) + 1 ELSE a \div b
    IN  IF w * H > W * h
        THEN [width |-> W, height |-> round(W * h, w)]
        ELSE [width |-> round(H * w, h), height |-> H]

\* (image_toregister_resize_width, image_toregister_resize_height) before padding
resize_dims(w, h, W, H) ==
    IF is_wider(w, h, W, H)
    THEN [width |-> W, height |-> (W * h) \div w]
    ELSE [width |-> (H * w) \div h, height |-> H]

\* cv2.resize(image, dsize): it rejects a dsize with a zero in it
resize_raises(dims) == dims.width = 0 \/ dims.height = 0

add_rows(w, h, W, H) == H - resize_dims(w, h, W, H).height

add_cols(w, h, W, H) == W - resize_dims(w, h, W, H).width

(***************************************************************************)
(* State.                                                                  *)
(***************************************************************************)
VARIABLES
    fs,                            \* the image files on disk: [path, width, height, decodable]
    budget,                        \* gestures the user still makes in this run
    exception,                     \* the exception that escaped a handler, "none" before
    window_enabled,                \* MainWindow.isEnabled(), set by the slot loading
    loading_grayout_label,         \* the overlay is visible
    viewer_reference,              \* the target viewer is open
    viewer_toregister_isclosed,
    viewer_result_isclosed,
    fullpath_reference,
    fullpath_toregister,
    image,                         \* image_reference_width, ..., image_toregister_resize_height
    registration_points,           \* [Side -> [Point -> CustomQGraphicsLineItem]]
    undo_buttons,                  \* [Side -> [Point -> ControlPointUndoButton]]
    points_reference,              \* aka "destination" points
    points_toregister,             \* aka "source" points
    registration_point_changed_but_not_applied,
    enabled,                       \* setEnabled state of the widgets
    image_registered,              \* the registered image: what it was computed from
    csv_file,                      \* the lines of the control-point file written last
    saved,                         \* what save_points was given when it wrote csv_file
    grabbed,                       \* the control point that holds the mouse
    timers,                        \* pending QTimer.singleShot(50, emit_registration_points)
    filepaths_batch,
    folderpath_batch,
    result_batch_checkbox,         \* "Enable batch registration" is checked
    batch,                         \* what the last run of save_batch found
    written,                       \* the registered images on disk, written by save_batch
    travel_log,                    \* per point: the last move and what followed it
    last                           \* the handler that ran last and what it returned

vars == <<fs, budget, exception, window_enabled, loading_grayout_label,
          viewer_reference, viewer_toregister_isclosed, viewer_result_isclosed,
          fullpath_reference, fullpath_toregister, image,
          registration_points, undo_buttons, points_reference, points_toregister,
          registration_point_changed_but_not_applied, enabled, image_registered,
          csv_file, saved, grabbed, timers, filepaths_batch, folderpath_batch,
          result_batch_checkbox, batch, written, travel_log, last>>

varsWindow == <<exception, window_enabled, loading_grayout_label>>
varsViewers == <<viewer_reference, viewer_toregister_isclosed, viewer_result_isclosed>>
varsImages == <<fullpath_reference, fullpath_toregister, image>>
varsItems == <<registration_points, undo_buttons, travel_log>>
varsArrays == <<points_reference, points_toregister>>
varsResult == <<registration_point_changed_but_not_applied, enabled, image_registered>>
varsFile == <<csv_file, saved>>
varsBatch == <<filepaths_batch, folderpath_batch, result_batch_checkbox, batch, written>>

(***************************************************************************)
(* CustomQGraphicsLineItem and ControlPointUndoButton.                     *)
(***************************************************************************)
Origin == <<0, 0>>

\* CustomQGraphicsLineItem.__init__
new_item == [pos |-> Origin, travel_start |-> Origin, travel_end |-> Origin,
             undo_widget |-> FALSE, undo_widget_has_seen_travel |-> FALSE]

\* ControlPointUndoButton.__init__ and set_control_point_widget(None)
new_button == [control_point_widget |-> FALSE, is_undo |-> TRUE, enabled |-> FALSE]

\* set_control_point_widget that leaves a detached button in its mode
set_control_point_widget_mode_kept(button, attach) ==
    IF attach THEN [button EXCEPT !.control_point_widget = TRUE]
    ELSE [button EXCEPT !.control_point_widget = FALSE, !.enabled = FALSE]

\* ControlPointUndoButton.set_control_point_widget(widget)
set_control_point_widget(button, attach) ==
    IF attach THEN [button EXCEPT !.control_point_widget = TRUE] ELSE new_button

\* CustomQGraphicsLineItem.set_undo_widget
set_undo_widget(item) == [item EXCEPT !.undo_widget = TRUE]

\* a control point with its undo button: c.point and c.button
control(item, button) == [point |-> item, button |-> button]

\* set_as_undo that leaves the button as it was
set_as_undo_forgotten(button) == button

\* ControlPointUndoButton.set_as_undo
set_as_undo(button) == [button EXCEPT !.is_undo = TRUE]

\* ControlPointUndoButton.set_as_redo
set_as_redo(button) == [button EXCEPT !.is_undo = FALSE]

\* tell_undo_widget_travel_was_made that tells the button of the first travel only
tell_undo_widget_of_first_travel_only(c) ==
    IF c.point.undo_widget /\ ~c.point.undo_widget_has_seen_travel
    THEN control([c.point EXCEPT !.undo_widget_has_seen_travel = TRUE],
                 [set_as_undo(c.button) EXCEPT !.enabled = TRUE])
    ELSE c

\* CustomQGraphicsLineItem.tell_undo_widget_travel_was_made
tell_undo_widget_travel_was_made(c) ==
    IF c.point.undo_widget
    THEN LET b == set_as_undo(c.button)
         IN  IF ~c.point.undo_widget_has_seen_travel
             THEN control([c.point EXCEPT !.undo_widget_has_seen_travel = TRUE],
                          [b EXCEPT !.enabled = TRUE])
             ELSE control(c.point, b)
    ELSE c

\* mousePressEvent that sets the start of the travel on the first travel only
mousePressEvent_of_first_travel_only(c) ==
    IF c.point.undo_widget_has_seen_travel THEN c
    ELSE [c EXCEPT !.point.travel_start = c.point.pos]

\* CustomQGraphicsLineItem.mousePressEvent
mousePressEvent(c) == [c EXCEPT !.point.travel_start = c.point.pos]

\* QGraphicsItem's move of a grabbed item
mouseMoveEvent(c, q) == [c EXCEPT !.point.pos = q]

\* CustomQGraphicsLineItem.mouseReleaseEvent
mouseReleaseEvent(c) ==
    tell_undo_widget_travel_was_made([c EXCEPT !.point.travel_end = c.point.pos])

\* set_position_manually that reads the start of the travel after the move
set_position_manually_late(c, q) ==
    tell_undo_widget_travel_was_made(
        [c EXCEPT !.point.pos = q, !.point.travel_start = q, !.point.travel_end = q])

\* CustomQGraphicsLineItem.set_position_manually
set_position_manually(c, q) ==
    tell_undo_widget_travel_was_made(
        [c EXCEPT !.point.travel_start = c.point.pos, !.point.pos = q,
                  !.point.travel_end = q])

\* CustomQGraphicsLineItem.undo_last_travel
undo_last_travel(item) == [item EXCEPT !.pos = item.travel_start]

\* CustomQGraphicsLineItem.redo_last_travel
redo_last_travel(item) == [item EXCEPT !.pos = item.travel_end]

\* ControlPointUndoButton.do_undo
do_undo(c) ==
    IF ~c.button.control_point_widget THEN c
    ELSE [c EXCEPT !.point = undo_last_travel(c.point)]

\* ControlPointUndoButton.do_redo
do_redo(c) ==
    IF ~c.button.control_point_widget THEN c
    ELSE [c EXCEPT !.point = redo_last_travel(c.point)]

\* ControlPointUndoButton.undo
undo(c) == [do_undo(c) EXCEPT !.button = set_as_redo(c.button)]

\* ControlPointUndoButton.redo
redo(c) == [do_redo(c) EXCEPT !.button = set_as_undo(c.button)]

\* ControlPointUndoButton.button_clicked
button_clicked(c) == IF c.button.is_undo THEN undo(c) ELSE redo(c)

\* RegisterView.make_registration_point on a pixmap of the given size:
\* placement 0.3 or 0.7 of the width and height, in thousandths of a pixel
make_registration_point(placement_x, placement_y, width, height) ==
    set_position_manually(control(new_item, new_button),
                          <<width * placement_x, height * placement_y>>).point

\* RegisterView.__init__: the four control points, offset = 0.3
make_registration_points(width, height) ==
    [i \in Point |->
        make_registration_point(IF i \in {1, 3} THEN 300 ELSE 700,
                                IF i \in {1, 2} THEN 300 ELSE 700, width, height)]

\* create_viewer_reference / create_viewer_toregister: a new RegisterView
\* whose control points are wired to the side's undo buttons
create_viewer(buttons, width, height) ==
    [i \in Point |->
        control(set_undo_widget(make_registration_points(width, height)[i]),
                set_control_point_widget(buttons[i], TRUE))]

\* RegisterView.set_points without the record of a travel
set_points_silently(cs, pairs) ==
    IF Len(pairs) # 4 THEN cs
    ELSE [i \in Point |-> [cs[i] EXCEPT !.point.pos = pairs[i]]]

\* set_points that hands the pairs to the control points in reverse order
set_points_reversed(cs, pairs) ==
    IF Len(pairs) # 4 THEN cs
    ELSE [i \in Point |-> set_position_manually(cs[i], pairs[5 - i])]

\* RegisterView.set_points
set_points(cs, pairs) ==
    IF Len(pairs) # 4 THEN cs
    ELSE [i \in Point |-> set_position_manually(cs[i], pairs[i])]

\* set_point that takes which_point for the point after it
set_point_of_next_point(cs, which_point, x_or_y, value) ==
    LET next_point == (which_point % 4) + 1
    IN  [cs EXCEPT ![next_point] =
             set_position_manually(@, IF x_or_y = "x"
                                      THEN <<value, cs[next_point].point.pos[2]>>
                                      ELSE <<cs[next_point].point.pos[1], value>>)]

\* RegisterView.set_point; value is the number the field emits
set_point(cs, which_point, x_or_y, value) ==
    IF which_point < 1 \/ which_point > 4 THEN cs
    ELSE IF x_or_y = "x"
    THEN [cs EXCEPT ![which_point] =
              set_position_manually(@, <<value, cs[which_point].point.pos[2]>>)]
    ELSE IF x_or_y = "y"
    THEN [cs EXCEPT ![which_point] =
              set_position_manually(@, <<cs[which_point].point.pos[1], value>>)]
    ELSE cs

positions(items) == [i \in Point |-> items[i].pos]

\* the ghost record of a point that has not been moved since it was made
no_travel == [from |-> Origin, to |-> Origin, then |-> "none",
              earlier |-> [from |-> Origin, to |-> Origin, then |-> "none"]]

\* the ghost record of a move from p to q, after the record t of the point
travel(p, q, then, t) ==
    [from |-> p, to |-> q, then |-> then,
     earlier |-> [from |-> t.from, to |-> t.to, then |-> t.then]]

(***************************************************************************)
(* Registrator: construction.                                              *)
(***************************************************************************)
zeros == [i \in Point |-> Origin]

\* what the last run of save_batch found
no_batch == [completed |-> FALSE, cancelled |-> FALSE, fullpaths_successful |-> << >>,
             one_or_more_images_mismatch |-> FALSE, outputs |-> << >>, pending |-> << >>,
             running |-> FALSE]

\* what the model remembers of the handler that ran last: the side and point
\* it was about, the point's history before it (was), the control points'
\* positions before it, the file it read or wrote, the user's answers to its
\* message boxes, the boxes it showed and what it returned; of a coordinate
\* field the coordinate, the number it emitted and how often it has emitted it
did(op) == [op |-> op, side |-> "", point |-> 0, was |-> "", before |-> None,
            path |-> None, file |-> None, responses |-> None, boxes |-> {},
            returned |-> None, x_or_y |-> "", value |-> 0, emitted |-> 0]

\* Registrator.__init__ on a disk that holds the image files files
Constructed(files, moves) ==
    /\ fs = files
    /\ budget = moves
    /\ exception = "none"
    /\ window_enabled = TRUE
    /\ loading_grayout_label = FALSE
    /\ viewer_reference = FALSE
    /\ viewer_toregister_isclosed = TRUE
    /\ viewer_result_isclosed = TRUE
    /\ fullpath_reference = None
    /\ fullpath_toregister = None
    /\ image = [reference_width |-> 0, reference_height |-> 0,
                toregister_width |-> 0, toregister_height |-> 0,
                toregister_resize_width |-> 0, toregister_resize_height |-> 0,
                toregister_resize_dims |-> <<0, 0>>]
    /\ registration_points = [s \in Side |-> [i \in Point |-> new_item]]
    /\ undo_buttons = [s \in Side |-> [i \in Point |-> new_button]]
    /\ points_reference = zeros
    /\ points_toregister = zeros
    /\ registration_point_changed_but_not_applied = TRUE
    /\ enabled = [toregister_widget |-> FALSE, result_widget |-> FALSE,
                  result_apply_button |-> FALSE, result_save_button |-> FALSE,
                  result_batch_widget |-> FALSE, result_batch_select_button |-> FALSE,
                  result_batch_folder_button |-> FALSE, result_batch_save_button |-> FALSE]
    /\ image_registered = [image |-> None, transform |-> [source |-> None, destination |-> None],
                           width |-> 0, height |-> 0]
    /\ csv_file = None
    /\ saved = [filename_reference |-> None, points_reference |-> None,
                filename_toregister |-> None, points_toregister |-> None]
    /\ grabbed = None
    /\ timers = {}
    /\ filepaths_batch = None
    /\ folderpath_batch = None
    /\ result_batch_checkbox = FALSE
    /\ batch = no_batch
    /\ written = {}
    /\ travel_log = [s \in Side |-> [i \in Point |-> no_travel]]
    /\ last = did("__init__")

\* Idle that does not look at the window: a disabled window takes gestures
Idle_of_disabled_window ==
    /\ exception = "none"
    /\ grabbed = None
    /\ timers = {}

\* nothing is running: no exception has ended the program, the window is
\* enabled, no control point holds the mouse and no timer is due
Idle ==
    /\ exception = "none"
    /\ window_enabled
    /\ grabbed = None
    /\ timers = {}

viewer_open(s) ==
    IF s = "reference" THEN viewer_reference ELSE ~viewer_toregister_isclosed

\* the handler ended normally, the overlay hidden; it leaves the record l
Returned(l) ==
    /\ exception' = "none"
    /\ window_enabled' = TRUE
    /\ loading_grayout_label' = FALSE
    /\ last' = l

\* the handler op was ended by exception e after display_loading_grayout(True)
Raised(op, e) ==
    /\ exception' = e
    /\ window_enabled' = FALSE
    /\ loading_grayout_label' = TRUE
    /\ last' = did(op)

(***************************************************************************)
(* Registrator: the slots of the control points' signals.                  *)
(***************************************************************************)
Moved(rp, s) == \E i \in Point : rp[s][i].pos # registration_points[s][i].pos

\* on_registration_point_changed that leaves the Save button as it is
on_registration_point_changed_save_kept ==
    /\ registration_point_changed_but_not_applied' = TRUE
    /\ enabled' = [enabled EXCEPT !.result_apply_button = TRUE]

\* on_registration_point_changed
on_registration_point_changed ==
    /\ registration_point_changed_but_not_applied' = TRUE
    /\ enabled' = [enabled EXCEPT !.result_apply_button = TRUE,
                                  !.result_save_button = FALSE]

\* on_registration_point_moved whose signal reaches the target's slot only
on_registration_point_moved_reference_only(rp) ==
    /\ points_reference' = IF Moved(rp, "reference")
                           THEN positions(rp["reference"]) ELSE points_reference
    /\ points_toregister' = points_toregister
    /\ IF Moved(rp, "reference") \/ Moved(rp, "toregister")
       THEN on_registration_point_changed
       ELSE UNCHANGED <<registration_point_changed_but_not_applied, enabled>>

\* itemChange -> RegisterView.on_registration_point_moved -> the Registrator's
\* slots, for the control points rp that the handler leaves behind
on_registration_point_moved(rp) ==
    /\ points_reference' = IF Moved(rp, "reference")
                           THEN positions(rp["reference"]) ELSE points_reference
    /\ points_toregister' = IF Moved(rp, "toregister")
                            THEN positions(rp["toregister"]) ELSE points_toregister
    /\ IF Moved(rp, "reference") \/ Moved(rp, "toregister")
       THEN on_registration_point_changed
       ELSE UNCHANGED <<registration_point_changed_but_not_applied, enabled>>

\* the control points of side s with their undo buttons
controls(s) ==
    [i \in Point |-> control(registration_points[s][i], undo_buttons[s][i])]

points_of(cs) == [i \in Point |-> cs[i].point]

buttons_of(cs) == [i \in Point |-> cs[i].button]

\* the viewers hold the control points cs: [Side -> [Point -> control]]
put_controls(cs) ==
    /\ registration_points' = [s \in Side |-> points_of(cs[s])]
    /\ undo_buttons' = [s \in Side |-> buttons_of(cs[s])]
    /\ on_registration_point_moved([s \in Side |-> points_of(cs[s])])

both_controls == [s \in Side |-> controls(s)]

(***************************************************************************)
(* Image files.  imread and QPixmap give a file's width and height, or     *)
(* nothing (None, a null pixmap) when the file cannot be decoded.          *)
(***************************************************************************)
file(name, width, height, decodable) ==
    [path |-> <<"/", "d", "/">> \o name, width |-> width, height |-> height,
     decodable |-> decodable]

png(letter) == <<letter, ".", "png">>

\* QPixmap(fullpath).width() and .height(): 0 for a null pixmap
pixmap_width(f) == IF f.decodable THEN f.width ELSE 0

pixmap_height(f) == IF f.decodable THEN f.height ELSE 0

(***************************************************************************)
(* Registrator: opening and closing the viewers.                           *)
(***************************************************************************)
\* load_reference: drag-and-drop or dialog selection of the target image
load_reference(f) ==
    /\ Idle
    /\ ~viewer_reference
    /\ f \in fs
    /\ fullpath_reference' = f.path
    /\ image' = [image EXCEPT !.reference_width = pixmap_width(f),
                              !.reference_height = pixmap_height(f)]
    /\ LET cs == create_viewer(undo_buttons["reference"], pixmap_width(f), pixmap_height(f))
       IN  /\ registration_points' = [registration_points EXCEPT !["reference"] = points_of(cs)]
           /\ undo_buttons' = [undo_buttons EXCEPT !["reference"] = buttons_of(cs)]
    /\ travel_log' = [travel_log EXCEPT !["reference"] = [i \in Point |-> no_travel]]
    /\ viewer_reference' = TRUE
    /\ timers' = timers \cup {"reference"}
    /\ enabled' = [enabled EXCEPT !.toregister_widget = TRUE]
    /\ Returned([did("load_reference") EXCEPT !.side = "reference"])
    /\ UNCHANGED <<fs, budget, viewer_toregister_isclosed, viewer_result_isclosed,
                   fullpath_toregister, varsArrays,
                   registration_point_changed_but_not_applied, image_registered,
                   varsFile, grabbed, varsBatch>>

\* the QTimer.singleShot(50, viewer.emit_registration_points) of a load fires
emit_registration_points(s) ==
    /\ exception = "none"
    /\ s \in timers
    /\ timers' = timers \ {s}
    /\ points_reference' = IF s = "reference"
                           THEN positions(registration_points[s]) ELSE points_reference
    /\ points_toregister' = IF s = "toregister"
                            THEN positions(registration_points[s]) ELSE points_toregister
    /\ UNCHANGED <<fs, budget, varsWindow, varsViewers, varsImages, varsItems,
                   varsResult, varsFile, grabbed, varsBatch, last>>

\* load_toregister: the moving image, resized and padded onto the target's canvas
load_toregister(f) ==
    /\ Idle
    /\ enabled.toregister_widget
    /\ viewer_toregister_isclosed
    /\ f \in fs
    /\ fullpath_toregister' = f.path
    /\ UNCHANGED <<fs, budget, viewer_reference, viewer_result_isclosed, fullpath_reference,
                   registration_point_changed_but_not_applied, image_registered,
                   varsFile, grabbed, varsBatch>>
    /\ LET W == image.reference_width
           H == image.reference_height
           read == [image EXCEPT !.toregister_width = f.width,
                                 !.toregister_height = f.height]
           dims == resize_dims(f.width, f.height, W, H)
           resized == [read EXCEPT !.toregister_resize_width = dims.width,
                                   !.toregister_resize_height = dims.height,
                                   !.toregister_resize_dims = <<dims.width, dims.height>>]
           stopped(e, img) ==
               /\ Raised("load_toregister", e)
               /\ image' = img
               /\ UNCHANGED <<viewer_toregister_isclosed, varsItems, varsArrays,
                              enabled, timers>>
       IN  IF ~f.decodable THEN stopped("AttributeError", image)
           ELSE IF H = 0 THEN stopped("ZeroDivisionError", read)
           ELSE IF resize_raises(dims) THEN stopped("cv2.error", resized)
           ELSE LET width == dims.width + add_cols(f.width, f.height, W, H)
                    height == dims.height + add_rows(f.width, f.height, W, H)
                    cs == create_viewer(undo_buttons["toregister"], width, height)
                IN  /\ image' = [resized EXCEPT !.toregister_resize_width = width,
                                                !.toregister_resize_height = height]
                    /\ registration_points' =
                           [registration_points EXCEPT !["toregister"] = points_of(cs)]
                    /\ undo_buttons' = [undo_buttons EXCEPT !["toregister"] = buttons_of(cs)]
                    /\ travel_log' =
                           [travel_log EXCEPT !["toregister"] = [i \in Point |-> no_travel]]
                    /\ viewer_toregister_isclosed' = FALSE
                    /\ timers' = timers \cup {"toregister"}
                    /\ enabled' = [enabled EXCEPT !.result_widget = TRUE,
                                                  !.result_apply_button = TRUE,
                                                  !.result_batch_widget = TRUE]
                    /\ points_reference' = positions(registration_points["reference"])
                    /\ points_toregister' = positions(points_of(cs))
                    /\ Returned([did("load_toregister") EXCEPT
                                     !.side = "toregister",
                                     !.returned = <<dims.width, dims.height>>])

\* the widgets' enabled states after close_viewer_toregister has closed the viewer
closed_toregister_enabled ==
    [enabled EXCEPT !.result_widget = FALSE, !.result_apply_button = FALSE,
                    !.result_save_button = FALSE, !.result_batch_widget = FALSE,
                    !.result_batch_select_button =
                        IF result_batch_checkbox THEN FALSE ELSE @,
                    !.result_batch_folder_button = FALSE,
                    !.result_batch_save_button = FALSE]

\* close_viewer_toregister past its message box, the viewer being open
closed_toregister ==
    /\ viewer_toregister_isclosed' = TRUE
    /\ viewer_result_isclosed' = TRUE
    /\ image_registered' = [image_registered EXCEPT !.image = None,
                               !.transform = [source |-> None, destination |-> None],
                               !.width = 0, !.height = 0]
    /\ filepaths_batch' = None
    /\ folderpath_batch' = None
    /\ result_batch_checkbox' = FALSE

\* close_viewer_toregister: the close button of the moving image's viewer
close_viewer_toregister(response) ==
    /\ Idle
    /\ ~viewer_toregister_isclosed
    /\ Returned([did("close_viewer_toregister") EXCEPT !.side = "toregister",
                                                    !.returned = response])
    /\ UNCHANGED <<fs, budget, viewer_reference, varsImages, varsArrays,
                   registration_point_changed_but_not_applied, varsFile, grabbed,
                   timers, batch, written>>
    /\ IF response # AcceptRole
       THEN UNCHANGED <<viewer_toregister_isclosed, viewer_result_isclosed, varsItems,
                        enabled, image_registered, filepaths_batch, folderpath_batch,
                        result_batch_checkbox>>
       ELSE /\ closed_toregister
            /\ enabled' = closed_toregister_enabled
            /\ registration_points' =
                   [registration_points EXCEPT !["toregister"] = [i \in Point |-> new_item]]
            /\ undo_buttons' =
                   [undo_buttons EXCEPT !["toregister"] =
                        [i \in Point |-> set_control_point_widget(@[i], FALSE)]]
            /\ travel_log' =
                   [travel_log EXCEPT !["toregister"] = [i \in Point |-> no_travel]]

\* close_viewer_reference: the close button of the target image's viewer
close_viewer_reference(response) ==
    /\ Idle
    /\ viewer_reference
    /\ Returned([did("close_viewer_reference") EXCEPT !.side = "reference",
                                                   !.returned = response])
    /\ UNCHANGED <<fs, budget, varsImages, varsArrays,
                   registration_point_changed_but_not_applied, varsFile, grabbed,
                   timers, batch, written>>
    /\ IF response # AcceptRole
       THEN UNCHANGED <<varsViewers, varsItems, enabled, image_registered,
                        filepaths_batch, folderpath_batch, result_batch_checkbox>>
       ELSE /\ viewer_reference' = FALSE
            /\ IF ~viewer_toregister_isclosed
               THEN /\ closed_toregister
                    /\ enabled' = [closed_toregister_enabled EXCEPT
                                       !.toregister_widget = FALSE]
               ELSE /\ enabled' = [enabled EXCEPT !.toregister_widget = FALSE]
                    /\ UNCHANGED <<viewer_toregister_isclosed, viewer_result_isclosed,
                                   image_registered, filepaths_batch, folderpath_batch,
                                   result_batch_checkbox>>
            /\ registration_points' = [s \in Side |-> [i \in Point |-> new_item]]
            /\ undo_buttons' =
                   [s \in Side |->
                        [i \in Point |-> set_control_point_widget(undo_buttons[s][i], FALSE)]]
            /\ travel_log' = [s \in Side |-> [i \in Point |-> no_travel]]

\* close_viewer_result that leaves the Save button as it is
close_viewer_result_save_kept ==
    /\ Idle
    /\ ~viewer_result_isclosed
    /\ viewer_result_isclosed' = TRUE
    /\ image_registered' = [image_registered EXCEPT !.image = None,
                               !.transform = [source |-> None, destination |-> None],
                               !.width = 0, !.height = 0]
    /\ enabled' = [enabled EXCEPT !.result_apply_button = TRUE]
    /\ Returned(did("close_viewer_result"))
    /\ UNCHANGED <<fs, budget, viewer_reference, viewer_toregister_isclosed, varsImages,
                   varsItems, varsArrays, registration_point_changed_but_not_applied,
                   varsFile, grabbed, timers, varsBatch>>

\* close_viewer_result: the close button of the preview
close_viewer_result ==
    /\ Idle
    /\ ~viewer_result_isclosed
    /\ viewer_result_isclosed' = TRUE
    /\ image_registered' = [image_registered EXCEPT !.image = None,
                               !.transform = [source |-> None, destination |-> None],
                               !.width = 0, !.height = 0]
    /\ enabled' = [enabled EXCEPT !.result_apply_button = TRUE,
                                  !.result_save_button = FALSE]
    /\ Returned(did("close_viewer_result"))
    /\ UNCHANGED <<fs, budget, viewer_reference, viewer_toregister_isclosed, varsImages,
                   varsItems, varsArrays, registration_point_changed_but_not_applied,
                   varsFile, grabbed, timers, varsBatch>>

(***************************************************************************)
(* The user's gestures on a control point.                                 *)
(***************************************************************************)
\* scene positions a dragged control point is dropped at
DragTargets == {<<1500, 375>>}

\* numbers typed into a coordinate field (NumberLineEdit takes no sign)
EditValues == {125}

both_positions == [s \in Side |-> positions(registration_points[s])]

\* mouse press on control point i of side s
MousePress(s, i) ==
    /\ Idle
    /\ viewer_open(s)
    /\ budget > 0
    /\ budget' = budget - 1
    /\ put_controls([both_controls EXCEPT ![s][i] = mousePressEvent(@)])
    /\ grabbed' = <<s, i>>
    /\ travel_log' = [travel_log EXCEPT ![s][i] =
                          travel(registration_points[s][i].pos,
                                 registration_points[s][i].pos, "pressed", @)]
    /\ Returned([did("mousePressEvent") EXCEPT !.side = s, !.point = i,
                                               !.was = travel_log[s][i].then])
    /\ UNCHANGED <<fs, varsViewers, varsImages, image_registered, varsFile,
                   timers, varsBatch>>

\* the grabbed control point follows the mouse to q
MouseMove(s, i, q) ==
    /\ exception = "none"
    /\ grabbed = <<s, i>>
    /\ q # registration_points[s][i].pos
    /\ put_controls([both_controls EXCEPT ![s][i] = mouseMoveEvent(@, q)])
    /\ UNCHANGED <<fs, budget, varsWindow, varsViewers, varsImages, image_registered,
                   varsFile, grabbed, timers, varsBatch, travel_log, last>>

\* mouse release: the travel is made
MouseRelease(s, i) ==
    /\ exception = "none"
    /\ grabbed = <<s, i>>
    /\ put_controls([both_controls EXCEPT ![s][i] = mouseReleaseEvent(@)])
    /\ grabbed' = None
    /\ travel_log' = [travel_log EXCEPT ![s][i] =
                          [@ EXCEPT !.to = registration_points[s][i].pos,
                                    !.then = "moved"]]
    /\ Returned([did("mouseReleaseEvent") EXCEPT !.side = s, !.point = i])
    /\ UNCHANGED <<fs, budget, varsViewers, varsImages, image_registered, varsFile,
                   timers, varsBatch>>

\* NumberLineEdit.editing_has_finished emits changed_value to RegisterView.set_point
EditingFinished(s, which_point, x_or_y, value) ==
    /\ Idle
    /\ viewer_open(s)
    /\ budget > 0
    /\ budget' = budget - 1
    /\ LET cs == set_point(controls(s), which_point, x_or_y, value)
       IN  /\ put_controls([both_controls EXCEPT ![s] = cs])
           /\ travel_log' = [travel_log EXCEPT ![s][which_point] =
                                 travel(registration_points[s][which_point].pos,
                                        cs[which_point].point.pos, "moved", @)]
    /\ Returned([did("set_point") EXCEPT !.side = s, !.point = which_point,
                                         !.was = travel_log[s][which_point].then,
                                         !.before = both_positions,
                                         !.x_or_y = x_or_y, !.value = value,
                                         !.emitted = 1])
    /\ UNCHANGED <<fs, varsViewers, varsImages, image_registered, varsFile, grabbed,
                   timers, varsBatch>>

\* the coordinate field whose edit was committed with Return loses the focus:
\* QLineEdit emits editingFinished once more, has_value_changed_since_being_focused
\* is still set (only focusInEvent resets it) and changed_value is emitted again
FocusOut ==
    /\ Idle
    /\ last.op = "set_point"
    /\ last.emitted = 1
    /\ LET cs == set_point(controls(last.side), last.point, last.x_or_y, last.value)
       IN  /\ put_controls([both_controls EXCEPT ![last.side] = cs])
           /\ travel_log' = [travel_log EXCEPT ![last.side][last.point] =
                                 travel(registration_points[last.side][last.point].pos,
                                        cs[last.point].point.pos, "moved", @)]
    /\ Returned([last EXCEPT !.emitted = 2])
    /\ UNCHANGED <<fs, budget, varsViewers, varsImages, image_registered, varsFile,
                   grabbed, timers, varsBatch>>

\* a click on the undo button of control point i of side s
UndoButtonClicked(s, i) ==
    /\ Idle
    /\ undo_buttons[s][i].enabled
    /\ put_controls([both_controls EXCEPT ![s][i] = button_clicked(@)])
    /\ travel_log' = [travel_log EXCEPT ![s][i].then =
                          IF @ = "undone" THEN "redone" ELSE "undone"]
    /\ Returned([did("button_clicked") EXCEPT
                     !.side = s, !.point = i, !.was = travel_log[s][i].then,
                     !.returned = IF undo_buttons[s][i].is_undo THEN "undo" ELSE "redo"])
    /\ UNCHANGED <<fs, budget, varsViewers, varsImages, image_registered, varsFile,
                   grabbed, timers, varsBatch>>

(***************************************************************************)
(* Registrator: Apply.  The perspective transform is held as the four      *)
(* source and four destination points that determine it.                   *)
(***************************************************************************)
getPerspectiveTransform(points_source, points_destination) ==
    [source |-> points_source, destination |-> points_destination]

\* warpPerspective(image, transform, size): the image, named by its file
warpPerspective(path, transform, width, height) ==
    [image |-> path, transform |-> transform, width |-> width, height |-> height]

\* image_registered = None
NoImage == warpPerspective(None, getPerspectiveTransform(None, None), 0, 0)

\* register_result with the two point arrays taken for each other
register_result_swapped ==
    warpPerspective(fullpath_toregister,
                    getPerspectiveTransform(points_reference, points_toregister),
                    image.toregister_resize_width, image.toregister_resize_height)

\* register_result
register_result ==
    warpPerspective(fullpath_toregister,
                    getPerspectiveTransform(points_toregister, points_reference),
                    image.toregister_resize_width, image.toregister_resize_height)

\* register_and_load_result: the Apply button
register_and_load_result ==
    /\ Idle
    /\ enabled.result_widget
    /\ enabled.result_apply_button
    /\ registration_point_changed_but_not_applied' = FALSE
    /\ image_registered' = register_result
    /\ viewer_result_isclosed' = FALSE
    /\ enabled' = [enabled EXCEPT !.result_apply_button = FALSE,
                                  !.result_save_button = TRUE]
    /\ Returned([did("register_and_load_result") EXCEPT !.returned = register_result])
    /\ UNCHANGED <<fs, budget, viewer_reference, viewer_toregister_isclosed, varsImages,
                   varsItems, varsArrays, varsFile, grabbed, timers, varsBatch>>

(***************************************************************************)
(* Registrator: the control points' file.                                  *)
(***************************************************************************)
\* on_click_save_points; chosen: the save dialog returned a path
on_click_save_points(chosen) ==
    /\ Idle
    /\ enabled.result_widget
    /\ IF viewer_toregister_isclosed
       THEN \* the first return: display_loading_grayout(False) is not called
            /\ exception' = "none"
            /\ window_enabled' = FALSE
            /\ loading_grayout_label' = TRUE
            /\ last' = did("on_click_save_points")
            /\ UNCHANGED varsFile
       ELSE LET lines == save_points(basename(fullpath_reference), points_reference,
                                    <<basename(fullpath_toregister)>>, points_toregister)
            IN  /\ csv_file' = IF chosen /\ lines # None THEN lines ELSE csv_file
                /\ saved' = IF chosen /\ lines # None
                            THEN [filename_reference |-> basename(fullpath_reference),
                                  points_reference |-> points_reference,
                                  filename_toregister |-> <<basename(fullpath_toregister)>>,
                                  points_toregister |-> points_toregister]
                            ELSE saved
                /\ Returned([did("on_click_save_points") EXCEPT
                                 !.file = IF chosen THEN lines ELSE None,
                                 !.before = both_positions])
    /\ UNCHANGED <<fs, budget, varsViewers, varsImages, varsItems, varsArrays,
                   varsResult, grabbed, timers, varsBatch>>

\* Registrator.set_points
Registrator_set_points(points_reference_arg, points_toregister_arg) ==
    [s \in Side |->
        set_points(controls(s), IF s = "reference" THEN points_reference_arg
                                ELSE points_toregister_arg)]

\* the travels a load makes: every point of a side that is given four pairs
\* travels to where Registrator.set_points puts it (cs)
loaded_travels(got, cs) ==
    [s \in Side |->
        IF Len(IF s = "reference" THEN got.points_reference ELSE got.points_toregister) # 4
        THEN travel_log[s]
        ELSE [i \in Point |->
                 travel(registration_points[s][i].pos, cs[s][i].point.pos, "loaded",
                        travel_log[s][i])]]

\* on_click_load_points from the return of load_points (got) on: the points
\* are handed to Registrator.set_points
points_loaded(got, fullpath, lines, responses) ==
    IF got.exc # "none"
    THEN /\ exception' = got.exc
         /\ window_enabled' = FALSE
         /\ loading_grayout_label' = TRUE
         /\ last' = [did("on_click_load_points") EXCEPT
                         !.path = fullpath, !.file = lines, !.responses = responses,
                         !.boxes = got.boxes, !.before = both_positions]
         /\ UNCHANGED <<varsItems, varsArrays,
                        registration_point_changed_but_not_applied, enabled>>
    ELSE /\ put_controls(Registrator_set_points(got.points_reference,
                                                got.points_toregister))
         /\ travel_log' =
                loaded_travels(got, Registrator_set_points(got.points_reference,
                                                           got.points_toregister))
         /\ Returned([did("on_click_load_points") EXCEPT
                          !.path = fullpath, !.file = lines,
                          !.responses = responses,
                          !.boxes = got.boxes,
                          !.before = both_positions,
                          !.returned = <<got.points_reference, got.points_toregister>>])

\* on_click_load_points; fullpath is what the open dialog returns (None:
\* cancelled) and lines what that file holds
on_click_load_points(fullpath, lines, response_reference, response_toregister) ==
    /\ Idle
    /\ enabled.result_widget
    /\ budget > 0
    /\ budget' = budget - 1
    /\ UNCHANGED <<fs, varsViewers, varsImages, image_registered, varsFile, grabbed,
                   timers, varsBatch>>
    /\ IF viewer_toregister_isclosed
       THEN \* the first return: display_loading_grayout(False) is not called
            /\ exception' = "none"
            /\ window_enabled' = FALSE
            /\ loading_grayout_label' = TRUE
            /\ last' = did("on_click_load_points")
            /\ UNCHANGED <<varsItems, varsArrays,
                           registration_point_changed_but_not_applied, enabled>>
       ELSE points_loaded(load_points(fullpath, lines, basename(fullpath_reference),
                                      basename(fullpath_toregister),
                                      response_reference, response_toregister),
                          fullpath, lines, <<response_reference, response_toregister>>)

(***************************************************************************)
(* Registrator: batch registration.                                        *)
(***************************************************************************)
\* imread(path): the file at path
imread(path) == CHOOSE f \in fs : f.path = path

\* generate_registered_fullpath(folderpath, fullpath_toregister)[0]
generate_registered_fullpath(folderpath, fullpath) ==
    LET suffix == <<"_registered_to_">> \o before_first_dot(basename(fullpath_reference))
                  \o <<".">>
    IN  folderpath \o <<"/">> \o replace(basename(fullpath), ".", suffix)

\* read_resize_pad_register without the padding
read_resize_pad_register_unpadded(filename) ==
    LET f == imread(filename)
        dims == resize_dims(f.width, f.height, image.reference_width,
                            image.reference_height)
        nothing == [exc |-> "none", ok |-> FALSE, image |-> NoImage]
    IN  IF ~f.decodable THEN [nothing EXCEPT !.exc = "AttributeError"]
        ELSE IF f.height # image.toregister_height \/ f.width # image.toregister_width
        THEN nothing
        ELSE IF image.reference_height = 0 \/ f.height = 0
        THEN [nothing EXCEPT !.exc = "ZeroDivisionError"]
        ELSE IF resize_raises(dims) THEN [nothing EXCEPT !.exc = "cv2.error"]
        ELSE [nothing EXCEPT
                 !.ok = TRUE,
                 !.image = warpPerspective(
                     filename,
                     getPerspectiveTransform(points_toregister, points_reference),
                     dims.width, dims.height)]

\* read_resize_pad_register(filename): exc names the exception that ends it;
\* ok = FALSE is the return of False
read_resize_pad_register(filename) ==
    LET f == imread(filename)
        W == image.reference_width
        H == image.reference_height
        dims == resize_dims(f.width, f.height, W, H)
        nothing == [exc |-> "none", ok |-> FALSE, image |-> NoImage]
    IN  IF ~f.decodable THEN [nothing EXCEPT !.exc = "AttributeError"]
        ELSE IF f.height # image.toregister_height \/ f.width # image.toregister_width
        THEN nothing
        ELSE IF H = 0 \/ f.height = 0 THEN [nothing EXCEPT !.exc = "ZeroDivisionError"]
        ELSE IF resize_raises(dims) THEN [nothing EXCEPT !.exc = "cv2.error"]
        ELSE [nothing EXCEPT
                 !.ok = TRUE,
                 !.image = warpPerspective(
                     filename,
                     getPerspectiveTransform(points_toregister, points_reference),
                     dims.width + add_cols(f.width, f.height, W, H),
                     dims.height + add_rows(f.width, f.height, W, H))]

\* a folder of the disk that cannot be written into
ReadOnlyFolder == <<"/", "r">>

\* a file can be written at path
writable(path) ==
    SubSeq(path, 1, Len(ReadOnlyFolder) + 1) # ReadOnlyFolder \o <<"/">>

\* imwrite(path, image) onto the files disk; where the file cannot be
\* written cv2.imwrite returns False and writes nothing
imwrite(disk, path, img) ==
    IF writable(path)
    THEN {w \in disk : w.path # path} \cup {[path |-> path, image |-> img]}
    ELSE disk

RECURSIVE batch_loop(_, _)
\* the loop of save_batch over fullpaths; acc.exc names the exception that
\* ends it
batch_loop(fullpaths, acc) ==
    IF Len(fullpaths) = 0 \/ acc.exc # "none" THEN acc
    ELSE LET fullpath == fullpaths[1]
             got == read_resize_pad_register(fullpath)
             next ==
                 IF got.exc # "none" THEN [acc EXCEPT !.exc = got.exc]
                 ELSE IF got.ok
                 THEN LET fullpath_registered ==
                              generate_registered_fullpath(folderpath_batch, fullpath)
                      IN  [acc EXCEPT
                              !.disk = imwrite(@, fullpath_registered, got.image),
                              !.outputs = Append(@, [path |-> fullpath_registered,
                                                     image |-> got.image]),
                              !.fullpaths_successful = Append(@, fullpath)]
                 ELSE [acc EXCEPT !.one_or_more_images_mismatch = TRUE]
         IN  batch_loop(Tail(fullpaths), next)

\* set_enabled_batch_buttons: the checkbox "Enable batch registration" is toggled
set_enabled_batch_buttons ==
    /\ Idle
    /\ enabled.result_widget
    /\ enabled.result_batch_widget
    /\ result_batch_checkbox' = ~result_batch_checkbox
    /\ enabled' = [enabled EXCEPT !.result_batch_select_button = ~result_batch_checkbox,
                                  !.result_batch_folder_button = FALSE,
                                  !.result_batch_save_button = FALSE]
    /\ Returned(did("set_enabled_batch_buttons"))
    /\ UNCHANGED <<fs, budget, varsViewers, varsImages, varsItems, varsArrays,
                   registration_point_changed_but_not_applied, image_registered,
                   varsFile, grabbed, timers, filepaths_batch, folderpath_batch,
                   batch, written>>

\* select_batch_files; filenames is what the open dialog returns (empty:
\* cancelled)
select_batch_files(filenames) ==
    /\ Idle
    /\ enabled.result_widget
    /\ enabled.result_batch_widget
    /\ enabled.result_batch_select_button
    /\ filepaths_batch' = IF Len(filenames) > 0 THEN filenames ELSE filepaths_batch
    /\ enabled' = IF Len(filenames) > 0
                  THEN [enabled EXCEPT !.result_batch_folder_button = TRUE]
                  ELSE [enabled EXCEPT !.result_batch_folder_button = FALSE,
                                       !.result_batch_save_button = FALSE]
    /\ Returned([did("select_batch_files") EXCEPT !.path = filenames])
    /\ UNCHANGED <<fs, budget, varsViewers, varsImages, varsItems, varsArrays,
                   registration_point_changed_but_not_applied, image_registered,
                   varsFile, grabbed, timers, folderpath_batch, result_batch_checkbox,
                   batch, written>>

\* select_batch_folder that enables the batch's save button although the
\* folder dialog was cancelled
select_batch_folder_save_enabled(filepath) ==
    /\ Idle
    /\ enabled.result_widget
    /\ enabled.result_batch_widget
    /\ enabled.result_batch_folder_button
    /\ folderpath_batch' = IF filepath # None THEN filepath ELSE folderpath_batch
    /\ enabled' = [enabled EXCEPT !.result_batch_save_button = TRUE]
    /\ Returned([did("select_batch_folder") EXCEPT !.path = filepath])
    /\ UNCHANGED <<fs, budget, varsViewers, varsImages, varsItems, varsArrays,
                   registration_point_changed_but_not_applied, image_registered,
                   varsFile, grabbed, timers, filepaths_batch, result_batch_checkbox,
                   batch, written>>

\* select_batch_folder; filepath is what the folder dialog returns (None:
\* cancelled)
select_batch_folder(filepath) ==
    /\ Idle
    /\ enabled.result_widget
    /\ enabled.result_batch_widget
    /\ enabled.result_batch_folder_button
    /\ folderpath_batch' = IF filepath # None THEN filepath ELSE folderpath_batch
    /\ enabled' = [enabled EXCEPT !.result_batch_save_button = (filepath # None)]
    /\ Returned([did("select_batch_folder") EXCEPT !.path = filepath])
    /\ UNCHANGED <<fs, budget, varsViewers, varsImages, varsItems, varsArrays,
                   registration_point_changed_but_not_applied, image_registered,
                   varsFile, grabbed, timers, filepaths_batch, result_batch_checkbox,
                   batch, written>>

BoxOverwrite == "Overwrite already registered files?"
BoxBatchComplete == "Batch complete"
BoxBatchMismatch == "One or more unsuccessful registrations"
BoxAutoSave == "Auto-save control points?"

\* save_batch: the button "Register and save batch", with the user's answers
\* to the question boxes it may show
save_batch(response_overwrite, response_autosave) ==
    /\ Idle
    /\ enabled.result_widget
    /\ enabled.result_batch_widget
    /\ enabled.result_batch_save_button
    /\ budget > 0
    /\ budget' = budget - 1
    /\ UNCHANGED <<fs, varsViewers, varsImages, varsItems, varsArrays, varsResult,
                   grabbed, timers, filepaths_batch, folderpath_batch,
                   result_batch_checkbox>>
    /\ LET fullpaths == filepaths_batch
           one_or_more_already_exists ==
               \E k \in 1..Len(fullpaths) : \E w \in written :
                   w.path = generate_registered_fullpath(folderpath_batch, fullpaths[k])
           ran == batch_loop(fullpaths,
                             [exc |-> "none", disk |-> written, outputs |-> << >>,
                              fullpaths_successful |-> << >>,
                              one_or_more_images_mismatch |-> FALSE])
           found == [completed |-> ran.exc = "none", cancelled |-> FALSE,
                     fullpaths_successful |-> ran.fullpaths_successful,
                     one_or_more_images_mismatch |-> ran.one_or_more_images_mismatch,
                     outputs |-> ran.outputs, pending |-> << >>,
                     running |-> FALSE]
           asked == Len(ran.fullpaths_successful) > 0
           filenames_toregister ==
               [k \in 1..Len(ran.fullpaths_successful) |->
                    basename(ran.fullpaths_successful[k])]
           lines == save_points(basename(fullpath_reference), points_reference,
                                filenames_toregister, points_toregister)
           autosaved == asked /\ response_autosave = AcceptRole /\ lines # None
       IN  IF one_or_more_already_exists /\ response_overwrite # AcceptRole
           THEN /\ Returned([did("save_batch") EXCEPT
                                 !.boxes = {BoxOverwrite},
                                 !.responses = <<response_overwrite>>])
                /\ batch' = [no_batch EXCEPT !.cancelled = TRUE]
                /\ UNCHANGED <<written, varsFile>>
           ELSE IF ran.exc # "none"
           THEN /\ Raised("save_batch", ran.exc)
                /\ batch' = found
                /\ written' = ran.disk
                /\ UNCHANGED varsFile
           ELSE /\ batch' = found
                /\ written' = ran.disk
                /\ csv_file' = IF autosaved THEN lines ELSE csv_file
                /\ saved' = IF autosaved
                            THEN [filename_reference |-> basename(fullpath_reference),
                                  points_reference |-> points_reference,
                                  filename_toregister |-> filenames_toregister,
                                  points_toregister |-> points_toregister]
                            ELSE saved
                /\ Returned([did("save_batch") EXCEPT
                                 !.boxes = (IF one_or_more_already_exists
                                            THEN {BoxOverwrite} ELSE {})
                                           \cup {BoxBatchComplete}
                                           \cup (IF ran.one_or_more_images_mismatch
                                                 THEN {BoxBatchMismatch} ELSE {})
                                           \cup (IF asked THEN {BoxAutoSave} ELSE {}),
                                 !.responses =
                                     (IF one_or_more_already_exists
                                      THEN <<response_overwrite>> ELSE << >>)
                                     \o (IF asked THEN <<response_autosave>> ELSE << >>),
                                 !.file = IF autosaved THEN lines ELSE None])

\* save_batch up to its loop, for a run that is followed file by file:
\* the overlay is shown and the window disabled, the overwrite box answered;
\* batch.running, and batch.pending holds the files the loop has not reached
save_batch_begins(response_overwrite) ==
    /\ Idle
    /\ enabled.result_widget
    /\ enabled.result_batch_widget
    /\ enabled.result_batch_save_button
    /\ budget > 0
    /\ budget' = budget - 1
    /\ UNCHANGED <<fs, varsViewers, varsImages, varsItems, varsArrays, varsResult,
                   varsFile, grabbed, timers, filepaths_batch, folderpath_batch,
                   result_batch_checkbox, written>>
    /\ IF /\ \E k \in 1..Len(filepaths_batch) : \E w \in written :
                 w.path = generate_registered_fullpath(folderpath_batch, filepaths_batch[k])
          /\ response_overwrite # AcceptRole
       THEN /\ Returned([did("save_batch") EXCEPT !.boxes = {BoxOverwrite},
                                                  !.responses = <<response_overwrite>>])
            /\ batch' = [no_batch EXCEPT !.cancelled = TRUE]
       ELSE /\ exception' = "none"
            /\ window_enabled' = FALSE
            /\ loading_grayout_label' = TRUE
            /\ last' = [did("save_batch") EXCEPT !.before = both_positions]
            /\ batch' = [no_batch EXCEPT !.pending = filepaths_batch, !.running = TRUE]

\* one turn of the loop of save_batch, up to its processEvents: the events
\* are the steps that can follow this one
save_batch_registers ==
    /\ exception = "none"
    /\ batch.running
    /\ Len(batch.pending) > 0
    /\ LET ran == batch_loop(<<batch.pending[1]>>,
                             [exc |-> "none", disk |-> written, outputs |-> batch.outputs,
                              fullpaths_successful |-> batch.fullpaths_successful,
                              one_or_more_images_mismatch |->
                                  batch.one_or_more_images_mismatch])
       IN  /\ written' = ran.disk
           /\ batch' = [batch EXCEPT
                            !.fullpaths_successful = ran.fullpaths_successful,
                            !.one_or_more_images_mismatch = ran.one_or_more_images_mismatch,
                            !.outputs = ran.outputs,
                            !.pending = Tail(@),
                            !.running = (ran.exc = "none")]
           /\ exception' = ran.exc
    /\ UNCHANGED <<fs, budget, window_enabled, loading_grayout_label, varsViewers,
                   varsImages, varsItems, varsArrays, varsResult, varsFile, grabbed,
                   timers, filepaths_batch, folderpath_batch, result_batch_checkbox,
                   last>>

\* save_batch past its loop: the boxes, the auto-save of the control points,
\* display_loading_grayout(False)
save_batch_ends(response_autosave) ==
    /\ exception = "none"
    /\ batch.running
    /\ Len(batch.pending) = 0
    /\ LET asked == Len(batch.fullpaths_successful) > 0
           filenames_toregister ==
               [k \in 1..Len(batch.fullpaths_successful) |->
                    basename(batch.fullpaths_successful[k])]
           lines == save_points(basename(fullpath_reference), points_reference,
                                filenames_toregister, points_toregister)
           autosaved == asked /\ response_autosave = AcceptRole /\ lines # None
       IN  IF autosaved /\ ~writable(folderpath_batch \o <<"/">>)
           THEN /\ Raised("save_batch", "PermissionError")
                /\ batch' = [batch EXCEPT !.running = FALSE]
                /\ UNCHANGED varsFile
           ELSE /\ csv_file' = IF autosaved THEN lines ELSE csv_file
                /\ saved' = IF autosaved
                            THEN [filename_reference |-> basename(fullpath_reference),
                                  points_reference |-> points_reference,
                                  filename_toregister |-> filenames_toregister,
                                  points_toregister |-> points_toregister]
                            ELSE saved
                /\ batch' = [batch EXCEPT !.completed = TRUE, !.running = FALSE]
                /\ Returned([last EXCEPT
                                 !.boxes = {BoxBatchComplete}
                                           \cup (IF batch.one_or_more_images_mismatch
                                                 THEN {BoxBatchMismatch} ELSE {})
                                           \cup (IF asked THEN {BoxAutoSave} ELSE {}),
                                 !.responses =
                                     IF asked THEN <<response_autosave>> ELSE << >>,
                                 !.file = IF autosaved THEN lines ELSE None])
    /\ UNCHANGED <<fs, budget, varsViewers, varsImages, varsItems, varsArrays,
                   varsResult, grabbed, timers, filepaths_batch, folderpath_batch,
                   result_batch_checkbox, written>>

(***************************************************************************)
(* The files of the model.                                                 *)
(***************************************************************************)
TargetName == png("t")
MovingName == png("m")
OtherName == png("x")

PointsA == << <<125, 250>>, <<2000, 250>>, <<125, 2005>>, <<2000, 2005>> >>
PointsB == << <<375, 500>>, <<1750, 500>>, <<375, 1625>>, <<1750, 1625>> >>

\* a file saved in a session with the given target and the given moving images
saved_by(target, movings) == save_points(target, PointsA, movings, PointsB)

saved_here == saved_by(TargetName, <<MovingName>>)

\* the last line of lines replaced by the row fields
with_last_row(lines, fields) ==
    [lines EXCEPT ![Len(lines)] = writerow(fields)]

\* files written elsewhere or edited by hand
ForeignFiles ==
    { saved_by(OtherName, <<MovingName>>),
      saved_by(TargetName, <<OtherName, MovingName>>),
      [saved_here EXCEPT ![5] = writerow(<< <<"target">>, <<"x">> >>)],
      SubSeq(saved_here, 1, Len(saved_here) - 1),
      with_last_row(saved_here, << str(1000), <<"x">>, str(3000), str(4000) >>) }

\* the control-point files the open dialog can return
files_on_disk == ForeignFiles \cup (IF csv_file = None THEN {} ELSE {csv_file})

\* the path of a control-point file
PointsPath == <<"/", "d", "/", "points", ".", "csv">>

Responses == {AcceptRole, RejectRole}

\* the images on disk in the interactive specification
Images ==
    { file(TargetName, 4, 2, TRUE), file(MovingName, 2, 2, TRUE) }

(***************************************************************************)
(* The interactive specification: viewers, control points, undo, Apply,    *)
(* and the control points' file.                                           *)
(***************************************************************************)
Init == Constructed(Images, MaxMoves)

Next ==
    \/ \E f \in fs : load_reference(f)
    \/ \E s \in Side : emit_registration_points(s)
    \/ \E f \in fs : load_toregister(f)
    \/ \E response \in Responses : close_viewer_reference(response)
    \/ \E response \in Responses : close_viewer_toregister(response)
    \/ \E s \in Side, i \in Point : MousePress(s, i)
    \/ \E s \in Side, i \in Point, q \in DragTargets : MouseMove(s, i, q)
    \/ \E s \in Side, i \in Point : MouseRelease(s, i)
    \/ \E s \in Side, i \in Point, x_or_y \in {"x", "y"}, value \in EditValues :
           EditingFinished(s, i, x_or_y, value)
    \/ \E s \in Side, i \in Point : UndoButtonClicked(s, i)

Spec == Init /\ [][Next]_vars

(***************************************************************************)
(* The specification of the control points' file: the two images are       *)
(* opened, points are edited, undone and redone, saved and loaded.         *)
(***************************************************************************)
NextPoints ==
    \/ \E f \in fs : load_reference(f)
    \/ \E s \in Side : emit_registration_points(s)
    \/ \E f \in fs : load_toregister(f)
    \/ \E s \in Side, x_or_y \in {"x", "y"}, value \in EditValues :
           EditingFinished(s, 1, x_or_y, value)
    \/ \E s \in Side : UndoButtonClicked(s, 1)
    \/ \E chosen \in BOOLEAN : on_click_save_points(chosen)
    \/ \E lines \in files_on_disk, r1 \in Responses, r2 \in Responses :
           on_click_load_points(PointsPath, lines, r1, r2)
    \/ on_click_load_points(None, << >>, RejectRole, RejectRole)

SpecPoints == Init /\ [][NextPoints]_vars

(***************************************************************************)
(* The specification of batch registration: on a disk that also holds a    *)
(* second image of the moving image's size and a file that is no image,    *)
(* the two images are opened, a point is edited, Apply is clicked, a batch *)
(* is selected, registered and saved.                                      *)
(***************************************************************************)
BatchFiles == {file(TargetName, 4, 2, TRUE), file(png("n"), 2, 2, TRUE),
               file(png("u"), 0, 0, FALSE)}

BatchImages == Images \cup BatchFiles

\* the lists the open dialog of select_batch_files can return
RECURSIVE Selections(_)
Selections(n) ==
    IF n = 0 THEN {<< >>}
    ELSE LET shorter == Selections(n - 1)
         IN  shorter \cup
             {Append(l, f.path) : l \in {x \in shorter : Len(x) = n - 1},
                                  f \in BatchFiles}

DistinctSelections ==
    {l \in Selections(MaxBatch) : \A j, k \in 1..Len(l) : j # k => l[j] # l[k]}

FolderPath == <<"/", "o">>

InitBatch == Constructed(BatchImages, MaxMoves)

NextBatch ==
    \/ \E f \in fs : load_reference(f)
    \/ \E s \in Side : emit_registration_points(s)
    \/ \E f \in fs : load_toregister(f)
    \/ EditingFinished("toregister", 1, "x", 125)
    \/ register_and_load_result
    \/ close_viewer_result
    \/ set_enabled_batch_buttons
    \/ \E filenames \in DistinctSelections : select_batch_files(filenames)
    \/ \E filepath \in {None, FolderPath} : select_batch_folder(filepath)
    \/ \E r1 \in Responses, r2 \in Responses : save_batch(r1, r2)

SpecBatch == InitBatch /\ [][NextBatch]_vars

(***************************************************************************)
(* The specification of the moving image's normalization: a target and a   *)
(* moving image of any sizes up to MaxDim are opened.                      *)
(***************************************************************************)
InitNormalize ==
    \E W \in 1..MaxDim, H \in 1..MaxDim, w \in 1..MaxDim, h \in 1..MaxDim :
        Constructed({file(TargetName, W, H, TRUE), file(MovingName, w, h, TRUE)}, 0)

NextNormalize ==
    \/ \E f \in fs : load_reference(f)
    \/ \E s \in Side : emit_registration_points(s)
    \/ \E f \in fs : load_toregister(f)

SpecNormalize == InitNormalize /\ [][NextNormalize]_vars

(***************************************************************************)
(* The specification of the batch's file names: next to the target and the *)
(* moving image the disk holds one more image of the moving image's size,  *)
(* of any name of up to MaxName symbols; it is registered in a batch.      *)
(***************************************************************************)
NameSymbols == {"a", ".", "png"}

Names == UNION {[1..n -> NameSymbols] : n \in 1..MaxName}

InitNames ==
    \E name \in Names : Constructed(Images \cup {file(name, 2, 2, TRUE)}, 1)

NextNames ==
    \/ load_reference(file(TargetName, 4, 2, TRUE))
    \/ \E s \in Side : emit_registration_points(s)
    \/ load_toregister(file(MovingName, 2, 2, TRUE))
    \/ set_enabled_batch_buttons
    \/ \E f \in fs \ Images : select_batch_files(<<f.path>>)
    \/ select_batch_folder(FolderPath)
    \/ \E r \in Responses : save_batch(AcceptRole, r)

SpecNames == InitNames /\ [][NextNames]_vars

(***************************************************************************)
(* The specification of the coordinate fields: the two images are opened,  *)
(* coordinates are typed into the fields of points 1 and 2 and committed   *)
(* with Return or by leaving the field, and the moves are undone and       *)
(* redone.                                                                 *)
(***************************************************************************)
NextEdit ==
    \/ \E f \in fs : load_reference(f)
    \/ \E s \in Side : emit_registration_points(s)
    \/ \E f \in fs : load_toregister(f)
    \/ \E s \in Side, i \in {1, 2}, x_or_y \in {"x", "y"}, value \in EditValues :
           EditingFinished(s, i, x_or_y, value)
    \/ FocusOut
    \/ \E s \in Side, i \in {1, 2} : UndoButtonClicked(s, i)

SpecEdit == Init /\ [][NextEdit]_vars

(***************************************************************************)
(* The specification of closing: the images are opened, closed and opened  *)
(* again while point 1 of each side is dragged and undone, the result is   *)
(* applied and closed, and the batch controls are used.                    *)
(***************************************************************************)
NextClose ==
    \/ \E f \in fs : load_reference(f)
    \/ \E s \in Side : emit_registration_points(s)
    \/ \E f \in fs : load_toregister(f)
    \/ \E response \in Responses : close_viewer_reference(response)
    \/ \E response \in Responses : close_viewer_toregister(response)
    \/ \E s \in Side : MousePress(s, 1)
    \/ \E s \in Side, q \in DragTargets : MouseMove(s, 1, q)
    \/ \E s \in Side : MouseRelease(s, 1)
    \/ \E s \in Side : UndoButtonClicked(s, 1)
    \/ register_and_load_result
    \/ close_viewer_result
    \/ set_enabled_batch_buttons
    \/ \E filenames \in {<< >>, <<file(MovingName, 2, 2, TRUE).path>>} :
           select_batch_files(filenames)
    \/ \E filepath \in {None, FolderPath} : select_batch_folder(filepath)

SpecClose == Init /\ [][NextClose]_vars

(***************************************************************************)
(* The specification of a batch run followed file by file: between two     *)
(* files the application processes the events that are due, so every       *)
(* handler whose guard holds may run there.                                *)
(***************************************************************************)
\* the lists of files chosen for a run: two files of the moving image's
\* size, or one of them and one of another size
RunSelections ==
    { <<file(MovingName, 2, 2, TRUE).path, file(png("n"), 2, 2, TRUE).path>>,
      <<file(png("n"), 2, 2, TRUE).path, file(TargetName, 4, 2, TRUE).path>> }

NextBatchRun ==
    \/ load_reference(file(TargetName, 4, 2, TRUE))
    \/ \E s \in Side : emit_registration_points(s)
    \/ load_toregister(file(MovingName, 2, 2, TRUE))
    \/ \E s \in Side : MousePress(s, 1)
    \/ \E s \in Side, q \in DragTargets : MouseMove(s, 1, q)
    \/ \E s \in Side : MouseRelease(s, 1)
    \/ \E s \in Side : UndoButtonClicked(s, 1)
    \/ set_enabled_batch_buttons
    \/ \E filenames \in RunSelections : select_batch_files(filenames)
    \/ \E filepath \in {FolderPath, ReadOnlyFolder} : select_batch_folder(filepath)
    \/ \E response \in Responses : save_batch_begins(response)
    \/ save_batch_registers
    \/ \E response \in Responses : save_batch_ends(response)

SpecBatchRun == InitBatch /\ [][NextBatchRun]_vars

(***************************************************************************)
(* The specification of malformed control-point files: the two images are  *)
(* open, point 1 of a side is dragged, and a file is loaded that holds the *)
(* row "target" and is cut short or damaged after it.                      *)
(***************************************************************************)
MalformedFiles ==
    { SubSeq(saved_here, 1, 5),
      SubSeq(saved_here, 1, 6),
      with_last_row(saved_here, << str(1000), str(2000) >>),
      with_last_row(saved_here, << str(1000), <<"x">>, str(3000), str(4000) >>) }

NextMalformed ==
    \/ \E f \in fs : load_reference(f)
    \/ \E s \in Side : emit_registration_points(s)
    \/ \E f \in fs : load_toregister(f)
    \/ \E s \in Side : MousePress(s, 1)
    \/ \E s \in Side, q \in DragTargets : MouseMove(s, 1, q)
    \/ \E s \in Side : MouseRelease(s, 1)
    \/ \E s \in Side : UndoButtonClicked(s, 1)
    \/ \E lines \in MalformedFiles \cup {saved_here} :
           on_click_load_points(PointsPath, lines, AcceptRole, AcceptRole)

SpecMalformed == Init /\ [][NextMalformed]_vars

(***************************************************************************)
(* The specification of Apply: the two images are opened, the first two    *)
(* moving points are dragged, the first target point is edited, the first  *)
(* point of a side is undone and redone, a control-point file is loaded,   *)
(* Apply is clicked and the preview closed.                                *)
(***************************************************************************)
\* the control-point files loaded under this specification: one saved for
\* the open images, one with three point rows and one with five
ApplyFiles ==
    { saved_here,
      SubSeq(saved_here, 1, Len(saved_here) - 1),
      Append(saved_here, writerow(<< str(1000), str(2000), str(3000), str(4000) >>)) }

NextApply ==
    \/ \E f \in fs : load_reference(f)
    \/ \E s \in Side : emit_registration_points(s)
    \/ \E f \in fs : load_toregister(f)
    \/ \E i \in {1, 2} : MousePress("toregister", i)
    \/ \E i \in {1, 2}, q \in DragTargets : MouseMove("toregister", i, q)
    \/ \E i \in {1, 2} : MouseRelease("toregister", i)
    \/ \E value \in EditValues : EditingFinished("reference", 1, "x", value)
    \/ \E s \in Side : UndoButtonClicked(s, 1)
    \/ \E lines \in ApplyFiles : on_click_load_points(PointsPath, lines, AcceptRole, AcceptRole)
    \/ register_and_load_result
    \/ close_viewer_result

SpecApply == Init /\ [][NextApply]_vars

(***************************************************************************)
(* Properties of the control points' undo and redo (under Spec).           *)
(***************************************************************************)
\* the states of a control point's history
UndoArmed == {"moved", "loaded", "redone"}
RedoArmed == {"undone"}

\* C1: after a move of a control point from P to Q (a drag or
\* set_position_manually) made with its undo button attached, an undo puts
\* the point back at P, and a redo directly after that undo puts it at Q.
C1_UndoRedoRoundTrip ==
    \A s \in Side, i \in Point :
        /\ travel_log[s][i].then = "undone"
               => registration_points[s][i].pos = travel_log[s][i].from
        /\ travel_log[s][i].then = "redone"
               => registration_points[s][i].pos = travel_log[s][i].to

\* a point was moved from P to another place Q, undone and redone
C1_Witness ==
    \E s \in Side, i \in Point :
        /\ last.op = "button_clicked" /\ last.side = s /\ last.point = i
        /\ last.was = "undone"
        /\ travel_log[s][i].then = "redone"
        /\ travel_log[s][i].from # travel_log[s][i].to
        /\ registration_points[s][i].pos = travel_log[s][i].to

C17_MoveWhileRedoArmedStartsAfresh ==
    \A s \in Side, i \in Point :
        LET t == travel_log[s][i]
            item == registration_points[s][i]
        IN  (t.earlier.then \in RedoArmed /\ t.then \in {"moved", "undone", "redone"})
            => /\ t.then = "moved"
                      => undo_buttons[s][i].enabled /\ undo_buttons[s][i].is_undo
               /\ t.then = "undone" => item.pos = t.from
               /\ t.then = "redone" => item.pos = t.to
               /\ t.earlier.to \notin {t.from, t.to}
                      => t.earlier.to \notin {item.pos, item.travel_start, item.travel_end}

\* a point was moved to B and undone, then moved from where it was to another
\* place C, undone and redone: it is at C
C17_Witness ==
    \E s \in Side, i \in Point :
        /\ last.op = "button_clicked" /\ last.side = s /\ last.point = i
        /\ travel_log[s][i].earlier.then \in RedoArmed
        /\ travel_log[s][i].then = "redone"
        /\ travel_log[s][i].earlier.to \notin {travel_log[s][i].from, travel_log[s][i].to}
        /\ travel_log[s][i].from # travel_log[s][i].to
        /\ registration_points[s][i].pos = travel_log[s][i].to

\* C18: the history is one level deep: after consecutive moves of a point
\* from A to B and from B to C, an undo puts the point at B, never at A, and
\* undo and redo after that only take it from B to C and back.
C18_HistoryOneLevelDeep ==
    \A s \in Side, i \in Point :
        LET t == travel_log[s][i]
            item == registration_points[s][i]
        IN  (t.earlier.then = "moved" /\ t.then \in {"moved", "undone", "redone"})
            => /\ t.from = t.earlier.to
               /\ t.then = "undone" => item.pos = t.earlier.to
               /\ t.then \in {"moved", "redone"} => item.pos = t.to
               /\ t.earlier.from \notin {t.from, t.to} => item.pos # t.earlier.from
               /\ item.travel_start = t.from /\ item.travel_end = t.to

\* a point was moved from A to B and from B to C, three places, and undone:
\* it is at B
C18_Witness ==
    \E s \in Side, i \in Point :
        /\ last.op = "button_clicked" /\ last.side = s /\ last.point = i
        /\ travel_log[s][i].earlier.then = "moved"
        /\ travel_log[s][i].then = "undone"
        /\ travel_log[s][i].earlier.from \notin {travel_log[s][i].from, travel_log[s][i].to}
        /\ travel_log[s][i].from # travel_log[s][i].to
        /\ registration_points[s][i].pos = travel_log[s][i].earlier.to

\* the handlers of a gesture on one control point
PointGestures == {"mousePressEvent", "mouseReleaseEvent", "set_point", "button_clicked"}

\* C19: undo and redo are per point and per side: a move (a drag or an edit
\* of a coordinate), an undo or a redo of point i of one side leaves the
\* position, the travel record and the undo button of every other point of
\* that side and of the four points of the other side as they were.
C19_PerPointPerSide ==
    [][ last'.op \in PointGestures
            => \A s \in Side, i \in Point :
                   <<s, i>> # <<last'.side, last'.point>>
                       => /\ registration_points'[s][i] = registration_points[s][i]
                          /\ undo_buttons'[s][i] = undo_buttons[s][i]
                          /\ travel_log'[s][i] = travel_log[s][i] ]_vars

\* a point has been moved to another place and its undo button clicked
\* while another point, moved to another place before, is UndoArmed or
\* RedoArmed
C19_Witness ==
    \E s \in Side, i \in Point :
        /\ last.op = "button_clicked" /\ last.side = s /\ last.point = i
        /\ travel_log[s][i].from # travel_log[s][i].to
        /\ \E s2 \in Side, j \in Point :
               /\ <<s2, j>> # <<s, i>>
               /\ travel_log[s2][j].then \in {"moved", "undone", "redone"}
               /\ travel_log[s2][j].from # travel_log[s2][j].to

\* the mouse was pressed and released on point i of side s, which lies where
\* it lay at the press
clicked_in_place(s, i) ==
    /\ last.op = "mouseReleaseEvent" /\ last.side = s /\ last.point = i
    /\ travel_log[s][i].then = "moved"
    /\ travel_log[s][i].from = travel_log[s][i].to

\* C30: a press and release on a control point that does not change its
\* position leaves its travel record and its undo button as they were before
\* the press: a point without a travel still offers nothing, and the undo or
\* redo that was offered is still offered and leads to the same position
C30_ClickInPlaceKeepsUndo ==
    \A s \in Side, i \in Point :
        clicked_in_place(s, i) =>
            LET was == travel_log[s][i].earlier
            IN  /\ undo_buttons[s][i].enabled = (was.then # "none")
                /\ undo_buttons[s][i].is_undo = (was.then \notin RedoArmed)
                /\ was.then # "none" =>
                       /\ registration_points[s][i].travel_start = was.from
                       /\ registration_points[s][i].travel_end = was.to

\* a point that had been moved and offered the undo of that move was clicked
\* in place
C30_Witness ==
    \E s \in Side, i \in Point :
        /\ clicked_in_place(s, i)
        /\ travel_log[s][i].earlier.then = "moved"
        /\ travel_log[s][i].earlier.from # travel_log[s][i].earlier.to
        /\ registration_points[s][i].pos = travel_log[s][i].earlier.to

(***************************************************************************)
(* Properties of the control points' file (under SpecPoints).              *)
(***************************************************************************)
current_filename_reference == basename(fullpath_reference)
current_filename_toregister == basename(fullpath_toregister)

\* the load that ran last read the file that save_points wrote last, the
\* target's filename is the saved one and the moving image's is in the
\* saved list
loaded_own_file ==
    /\ last.op = "on_click_load_points"
    /\ last.path # None
    /\ csv_file # None
    /\ last.file = csv_file
    /\ saved.filename_reference = current_filename_reference
    /\ IndexOf(saved.filename_toregister, current_filename_toregister, 1) > 0

\* C3: save_points followed by load_points of the same file, with the same
\* target filename and a moving filename of the saved list, returns the
\* target points and the moving points that were saved, index by index,
\* and shows no box.
C3_SaveLoadRoundTrip ==
    loaded_own_file
        => /\ last.boxes = {}
           /\ Len(last.returned[1]) = n_registration_points
           /\ Len(last.returned[2]) = n_registration_points
           /\ \A i \in Point :
                  /\ last.returned[1][i] = saved.points_reference[i]
                  /\ last.returned[2][i] = saved.points_toregister[i]

\* a saved coordinate with three decimals came back from the file
C3_Witness ==
    /\ loaded_own_file
    /\ \E i \in Point : saved.points_reference[i][1] % 10 # 0
                        /\ last.returned[1][i] = saved.points_reference[i]

\* the file has no row that is the single field "target"
no_target_row(lines) ==
    \A k \in 1..Len(lines) : readrow(lines[k]) # << <<"target">> >>

\* C4: the load of a file without a row ["target"] shows the invalid-format
\* box, returns no points, and leaves every control point of both sides
\* where it was.
C4_NoMarkerRejected ==
    (last.op = "on_click_load_points" /\ last.path # None /\ no_target_row(last.file))
        => /\ BoxInvalid \in last.boxes
           /\ last.returned = << << >>, << >> >>
           /\ both_positions = last.before

\* a file whose only "target" is the first field of a longer row was rejected
C4_Witness ==
    /\ last.op = "on_click_load_points" /\ last.path # None
    /\ no_target_row(last.file)
    /\ index_of_target_field(csv_list_of(last.file)) > 0
    /\ last.boxes = {BoxInvalid}
    /\ both_positions = last.before

\* the file has the marker and exactly four rows of points
four_point_rows(lines) ==
    /\ ~no_target_row(lines)
    /\ Len(lines) = index_of_target(csv_list_of(lines)) + 4 + n_registration_points

\* the moving points in the file's rows of points
moving_points_of(lines) ==
    LET csv_list == csv_list_of(lines)
        first == index_of_target(csv_list) + 4
    IN  [i \in Point |-> <<float(csv_list[first + i][3]), float(csv_list[first + i][4])>>]

\* C5: a filename mismatch is decided per side: when the user aborts the
\* target side and the moving side matches or is accepted, the four moving
\* points of the file are returned and applied (and no target point is).
C5_SidesIndependent ==
    ( /\ last.op = "on_click_load_points" /\ last.path # None
      /\ four_point_rows(last.file)
      /\ BoxMismatchTarget \in last.boxes /\ last.responses[1] # AcceptRole
      /\ BoxMismatchMoving \in last.boxes => last.responses[2] = AcceptRole )
        => /\ last.returned[1] = << >>
           /\ Len(last.returned[2]) = n_registration_points
           /\ \A i \in Point :
                  /\ last.returned[2][i] = moving_points_of(last.file)[i]
                  /\ registration_points["toregister"][i].pos = moving_points_of(last.file)[i]

\* the other half of C5, which the code keeps: the moving side aborted, the
\* target side matching or accepted
C5_Witness ==
    /\ last.op = "on_click_load_points" /\ last.path # None
    /\ four_point_rows(last.file)
    /\ BoxMismatchMoving \in last.boxes /\ last.responses[2] # AcceptRole
    /\ Len(last.returned[1]) = n_registration_points
    /\ last.returned[2] = << >>

batch_ran == last.op = "save_batch" /\ ~batch.cancelled

\* the batch files of the run that imread decodes, by position
decoded == {k \in 1..Len(filepaths_batch) : imread(filepaths_batch[k]).decodable}

\* the size of batch file k is that of the moving image
same_size(k) ==
    /\ imread(filepaths_batch[k]).width = image.toregister_width
    /\ imread(filepaths_batch[k]).height = image.toregister_height

\* the run wrote the registered image of batch file k
was_written(k) ==
    \E j \in 1..Len(batch.outputs) :
        /\ batch.outputs[j].image.image = filepaths_batch[k]
        /\ batch.outputs[j].path =
               generate_registered_fullpath(folderpath_batch, filepaths_batch[k])
        /\ batch.outputs[j] \in written

\* C7: in a batch run every file whose size differs from the moving image's
\* is skipped, not written and reported as a mismatch, and every file whose
\* size equals it is registered and written, whatever its position in the
\* list and whatever the other files of the list are.
C7_BatchSkipsOnlyMismatches ==
    batch_ran =>
        \A k \in decoded :
            IF same_size(k) THEN was_written(k)
            ELSE /\ ~was_written(k)
                 /\ batch.one_or_more_images_mismatch
                 /\ BoxBatchMismatch \in last.boxes

\* a batch of two decodable files, the first of another size than the moving
\* image's, has run: the first is not written, the second is, and the
\* mismatch is reported
C7_Witness ==
    /\ batch_ran
    /\ Len(filepaths_batch) = 2
    /\ decoded = {1, 2}
    /\ ~same_size(1) /\ same_size(2)
    /\ ~was_written(1) /\ was_written(2)
    /\ BoxBatchMismatch \in last.boxes

\* C8: a batch file that cannot be decoded is a failure of that file only:
\* the run goes on to the files after it and ends with its completion report.
C8_UndecodableFileDoesNotAbort ==
    (batch_ran /\ decoded # 1..Len(filepaths_batch)) =>
        /\ exception = "none"
        /\ batch.completed
        /\ BoxBatchComplete \in last.boxes
        /\ \A k \in decoded : same_size(k) => was_written(k)

\* a batch whose first file cannot be decoded and whose second file has the
\* moving image's size has run
C8_Witness ==
    /\ batch_ran
    /\ Len(filepaths_batch) >= 2
    /\ 1 \notin decoded
    /\ 2 \in decoded /\ same_size(2)

\* C9: every image a batch run writes is registered with the homography of
\* the most recent Apply, the one the preview shows.
C9_BatchUsesAppliedHomography ==
    (batch_ran /\ ~viewer_result_isclosed) =>
        \A j \in 1..Len(batch.outputs) :
            batch.outputs[j].image.transform = image_registered.transform

\* a batch has written an image while the preview shows an Apply that was
\* made before the last edit of a control point
C9_Witness ==
    /\ batch_ran
    /\ ~viewer_result_isclosed
    /\ registration_point_changed_but_not_applied
    /\ Len(batch.outputs) > 0

\* C23: for every file of a batch that passes the dimension check, the
\* width and height it is resized to and the rows and columns it is padded
\* with are those computed when the moving image was loaded, so the file is
\* written on the canvas of the moving image's own result.
C23_BatchUsesLoadedRecipe ==
    batch_ran =>
        \A j \in 1..Len(batch.outputs) :
            LET f == imread(batch.outputs[j].image.image)
                W == image.reference_width
                H == image.reference_height
                dims == resize_dims(f.width, f.height, W, H)
            IN  /\ <<dims.width, dims.height>> = image.toregister_resize_dims
                /\ add_cols(f.width, f.height, W, H) =
                       image.toregister_resize_width - image.toregister_resize_dims[1]
                /\ add_rows(f.width, f.height, W, H) =
                       image.toregister_resize_height - image.toregister_resize_dims[2]
                /\ batch.outputs[j].image.width = image.toregister_resize_width
                /\ batch.outputs[j].image.height = image.toregister_resize_height

\* a batch has written a file of the moving image's size, which is narrower
\* than the target: it was resized and padded with columns as the moving
\* image was
C23_Witness ==
    /\ batch_ran
    /\ Len(batch.outputs) > 0
    /\ batch.outputs[1].image.image # fullpath_toregister
    /\ image.toregister_resize_width > image.toregister_resize_dims[1]
    /\ image.toregister_resize_dims[1] > 0
    /\ batch.outputs[1].image.width = image.toregister_resize_width

\* C27: every operation that shows the loading overlay hides it before it
\* ends, on every path: whenever no operation is under way the overlay is
\* hidden and the main window is enabled
C27_OverlayHiddenAfterOperation ==
    ~batch.running => (~loading_grayout_label /\ window_enabled)

\* an operation has ended by an early return, the overwrite prompt of the
\* batch refused, with the overlay hidden and the window enabled
C27_Witness ==
    /\ last.op = "save_batch"
    /\ batch.cancelled
    /\ exception = "none"
    /\ ~loading_grayout_label
    /\ window_enabled

(***************************************************************************)
(* Properties of the moving image's normalization (under SpecNormalize).   *)
(***************************************************************************)
\* load_toregister has just run on the moving image f over the target t
normalized(t, f) ==
    /\ last.op = "load_toregister"
    /\ fullpath_reference = t.path
    /\ fullpath_toregister = f.path

\* C10: for every target and every moving image of positive width and height
\* the moving image is resized and padded onto a canvas of exactly the
\* target's width and height, the added rows and columns being no less than
\* zero.
C10_CanvasIsTargetSize ==
    \A t \in fs, f \in fs :
        (normalized(t, f) /\ t.width > 0 /\ t.height > 0 /\ f.width > 0 /\ f.height > 0) =>
            /\ exception = "none"
            /\ image.toregister_resize_width = t.width
            /\ image.toregister_resize_height = t.height
            /\ add_rows(f.width, f.height, t.width, t.height) >= 0
            /\ add_cols(f.width, f.height, t.width, t.height) >= 0

\* a moving image narrower than the target has been resized to the target's
\* height and padded with columns to the target's width
C10_Witness ==
    \E t \in fs, f \in fs :
        /\ normalized(t, f)
        /\ exception = "none"
        /\ ~is_wider(f.width, f.height, t.width, t.height)
        /\ add_cols(f.width, f.height, t.width, t.height) > 0
        /\ image.toregister_resize_width = t.width
        /\ image.toregister_resize_height = t.height


\* the dimensions load_toregister has resized the moving image to, before
\* padding
resized_to ==
    IF exception = "none" THEN last.returned
    ELSE <<image.toregister_resize_width, image.toregister_resize_height>>

\* round(a / b), half to even
nearest(a, b) ==
    IF 2 * (a % b) > b \/ (2 * (a % b) = b /\ (a \div b) % 2 = 1)
    THEN (a \div b) + 1 ELSE a \div b

\* C11 (as stated): the width is fitted when the moving image's aspect ratio
\* is strictly greater than the target's and the height otherwise, and the
\* other resized dimension is the quotient rounded to the nearest integer.
C11_OtherDimensionRounded ==
    \A t \in fs, f \in fs :
        normalized(t, f) =>
            resized_to = IF f.width * t.height > t.width * f.height
                         THEN <<t.width, nearest(t.width * f.height, f.width)>>
                         ELSE <<nearest(t.height * f.width, f.height), t.height>>

\* C11 (amended): the width is fitted when the moving image's aspect ratio is
\* strictly greater than the target's and the height otherwise, and the other
\* resized dimension is the quotient truncated to an integer.
C11_OtherDimensionTruncated ==
    \A t \in fs, f \in fs :
        normalized(t, f) =>
            resized_to = IF f.width * t.height > t.width * f.height
                         THEN <<t.width, (t.width * f.height) \div f.width>>
                         ELSE <<(t.height * f.width) \div f.height, t.height>>

\* a moving image has been fitted to the target's height with a width whose
\* quotient has a fraction above one half, and the width was truncated
C11_Witness ==
    \E t \in fs, f \in fs :
        /\ normalized(t, f)
        /\ exception = "none"
        /\ f.width * t.height <= t.width * f.height
        /\ 2 * ((t.height * f.width) % f.height) > f.height
        /\ resized_to = <<(t.height * f.width) \div f.height, t.height>>

(***************************************************************************)
(* Properties of Apply (under SpecApply).                                  *)
(***************************************************************************)
\* the points p, q and r lie on one line (two of them may coincide)
collinear(p, q, r) ==
    (q[1] - p[1]) * (r[2] - p[2]) = (q[2] - p[2]) * (r[1] - p[1])

\* three of the four points are collinear or two coincide
degenerate(points) ==
    \E i, j, k \in Point :
        i < j /\ j < k /\ collinear(points[i], points[j], points[k])

\* Apply has just run on a degenerate configuration of control points
applied_degenerate ==
    /\ last.op = "register_and_load_result"
    /\ degenerate(points_reference) \/ degenerate(points_toregister)

\* C12: Apply with a degenerate configuration of control points is reported
\* as DegenerateConfiguration: no registered image is produced from it and
\* Save is not enabled for it.
C12_DegenerateApplyReported ==
    applied_degenerate =>
        /\ exception = "DegenerateConfiguration"
        /\ image_registered = NoImage
        /\ ~enabled.result_save_button

\* Apply has run with two control points of a side on the same position: a
\* registered image is held and Save is enabled
C12_Witness ==
    /\ applied_degenerate
    /\ exception = "none"
    /\ image_registered # NoImage
    /\ enabled.result_save_button

\* where the homography of four correspondences in general position takes the
\* source point p: the destination point of every correspondence p is the
\* source of
perspectiveTransform(transform, p) ==
    {transform.destination[i] : i \in {j \in Point : transform.source[j] = p}}

\* Apply has just run on control points in general position
applied_in_general_position ==
    /\ last.op = "register_and_load_result"
    /\ ~degenerate(points_reference)
    /\ ~degenerate(points_toregister)

points_array(s) == IF s = "reference" THEN points_reference ELSE points_toregister

\* each side holds four control points and four slots of two coordinates
four_points ==
    \A s \in Side :
        /\ DOMAIN registration_points[s] = Point
        /\ DOMAIN points_array(s) = Point
        /\ \A i \in Point : Len(points_array(s)[i]) = 2

\* with no handler running, slot i of an open side's array holds the position
\* of control point i of that side
slots_in_order ==
    Idle => \A s \in Side : viewer_open(s) =>
                \A i \in Point : points_array(s)[i] = registration_points[s][i].pos

\* a load has handed row i to point i of each side it was given four rows
\* for, and has left a side it was given another number of rows for as it was
load_in_order ==
    (last.op = "on_click_load_points" /\ exception = "none") =>
        \A s \in Side :
            LET pairs == last.returned[IF s = "reference" THEN 1 ELSE 2]
            IN  \A i \in Point :
                    registration_points[s][i].pos =
                        IF Len(pairs) = 4 THEN pairs[i] ELSE last.before[s][i]

\* C14: after any sequence of moves, edits, undos, redos and loads of files
\* with any number of coordinate rows each side holds exactly four control
\* points, pair i relates target point i to moving point i (a load hands row
\* i to point i, slot i of each array is point i), and a handler that acts on
\* point i of a side changes no other point and no other slot.
C14_FourPointsInOrder ==
    [][ /\ four_points'
        /\ slots_in_order'
        /\ load_in_order'
        /\ last'.op \in PointGestures =>
               \A s \in Side, i \in Point :
                   (s # last'.side \/ i # last'.point) =>
                       /\ registration_points'[s][i].pos = registration_points[s][i].pos
                       /\ points_array(s)'[i] = points_array(s)[i] ]_vars

\* a file with five coordinate rows has been loaded after a control point
\* was moved or loaded, and it left all eight points in place
C14_Witness ==
    /\ last.op = "on_click_load_points"
    /\ exception = "none"
    /\ Len(last.returned[1]) = 5
    /\ \E s \in Side, i \in Point : travel_log[s][i].then \in {"moved", "loaded"}
    /\ both_positions = last.before
    /\ four_points

\* the control points are marked as changed since the last Apply
not_applied ==
    /\ registration_point_changed_but_not_applied
    /\ enabled.result_apply_button
    /\ ~enabled.result_save_button

\* the step changes the position of a control point of an open viewer (an
\* image that is opened gets a new viewer with new control points)
position_changed ==
    /\ last'.op \in PointGestures \cup {"on_click_load_points"}
    /\ both_positions' # both_positions

\* the step is a click on Apply
apply_step ==
    last.op # "register_and_load_result" /\ last'.op = "register_and_load_result"

\* C20: every change of a control point's position, by a drag, an edit of a
\* coordinate, an undo, a redo or the load of a file, marks the result as not
\* applied: Apply is enabled and Save disabled; they stay so until the next
\* Apply, which disables Apply and enables Save.
C20_ChangeMarksNotApplied ==
    [][ /\ position_changed => not_applied'
        /\ (not_applied /\ ~apply_step) => not_applied'
        /\ apply_step => /\ ~registration_point_changed_but_not_applied'
                         /\ ~enabled'.result_apply_button
                         /\ enabled'.result_save_button ]_vars

\* after an Apply, whose result is still shown, a point was undone to another
\* place: the result is marked not applied
C20_Witness ==
    /\ last.op = "button_clicked"
    /\ ~viewer_result_isclosed
    /\ image_registered.transform # getPerspectiveTransform(points_toregister, points_reference)
    /\ travel_log[last.side][last.point].from # travel_log[last.side][last.point].to
    /\ not_applied

\* C29: whenever Apply, the batch registration or the saving of the control
\* points can run (the result panel is enabled and no handler, drag or timer
\* is under way), and after Apply has run, the stored point arrays are the
\* positions of the control points on the canvases, point by point
C29_ArraysAreCanvasPositions ==
    ((Idle /\ enabled.result_widget) \/ last.op = "register_and_load_result") =>
        \A s \in Side, i \in Point :
            points_array(s)[i] = registration_points[s][i].pos

\* Apply has run after a moving point was dragged away from where it was made
\* and the first target point was edited, undone, redone or loaded
C29_Witness ==
    /\ last.op = "register_and_load_result"
    /\ \E i \in Point : /\ travel_log["toregister"][i].then = "moved"
                         /\ travel_log["toregister"][i].from # travel_log["toregister"][i].to
                         /\ points_toregister[i] = travel_log["toregister"][i].to
    /\ travel_log["reference"][1].then # "none"
    /\ points_reference[1] = registration_points["reference"][1].pos

(***************************************************************************)
(* Properties of the batch's file names (under SpecNames).                 *)
(***************************************************************************)
\* the name with the suffix inserted once, before its extension (at its end
\* if it has none)
with_suffix_before_extension(name, suffix) ==
    LET dot == LastIndexOf(name, ".", Len(name))
    IN  IF dot = 0 THEN name \o suffix
        ELSE SubSeq(name, 1, dot - 1) \o suffix \o SubSeq(name, dot, Len(name))

\* the suffix of a file registered to the open target
registered_suffix ==
    <<"_registered_to_">> \o before_first_dot(basename(fullpath_reference))

\* C15: the name of every file a batch writes is the name of its source with
\* the suffix _registered_to_<targetBaseName> inserted exactly once,
\* immediately before the extension, the rest of the name unchanged; it
\* differs from the name of the source.
C15_SuffixOnceBeforeExtension ==
    batch_ran =>
        \A j \in 1..Len(batch.outputs) :
            LET source == basename(batch.outputs[j].image.image)
                written_as == basename(batch.outputs[j].path)
            IN  /\ written_as = with_suffix_before_extension(source, registered_suffix)
                /\ written_as # source

\* a batch has written a file whose name holds one dot: the suffix stands
\* once, before the extension
C15_Witness ==
    /\ batch_ran
    /\ Len(batch.outputs) = 1
    /\ Cardinality({k \in 1..Len(filepaths_batch[1]) : filepaths_batch[1][k] = "."}) = 1
    /\ basename(batch.outputs[1].path) =
           with_suffix_before_extension(basename(filepaths_batch[1]), registered_suffix)
    /\ basename(batch.outputs[1].path) # basename(filepaths_batch[1])

(***************************************************************************)
(* Properties of the coordinate fields (under SpecEdit).                   *)
(***************************************************************************)
\* position p with one coordinate replaced by value
with_coordinate(p, x_or_y, value) ==
    IF x_or_y = "x" THEN <<value, p[2]>> ELSE <<p[1], value>>

\* C16: a committed edit of one coordinate of point i is one move of point i
\* with the other coordinate unchanged: only that coordinate of that point
\* changes, the travel recorded goes from the position before the edit to the
\* new position, and an undo restores the position before the edit, however
\* many times editingFinished fires for the edit.
C16_EditIsOneMove ==
    last.op = "set_point" =>
        LET item == registration_points[last.side][last.point]
            pre == last.before[last.side][last.point]
        IN  /\ both_positions =
                   [last.before EXCEPT ![last.side][last.point] =
                        with_coordinate(pre, last.x_or_y, last.value)]
            /\ item.travel_start = pre
            /\ item.travel_end = item.pos
            /\ undo_last_travel(item).pos = pre

\* an edit that changed a coordinate has been committed, editingFinished has
\* fired once, and the travel recorded starts at the position before the edit
C16_Witness ==
    /\ last.op = "set_point"
    /\ last.emitted = 1
    /\ registration_points[last.side][last.point].pos # last.before[last.side][last.point]
    /\ registration_points[last.side][last.point].travel_start =
           last.before[last.side][last.point]

(***************************************************************************)
(* Properties of closing (under SpecClose).                                *)
(***************************************************************************)
\* QWidget.isEnabled of a widget of the result panel: it is enabled itself
\* and so are the widgets that hold it
isEnabled(widget) ==
    /\ enabled[widget]
    /\ enabled.result_widget
    /\ widget \in {"result_batch_select_button", "result_batch_folder_button",
                   "result_batch_save_button"} => enabled.result_batch_widget

\* no image is open and nothing of the control points is left
all_closed_and_reset ==
    /\ ~viewer_reference
    /\ viewer_toregister_isclosed
    /\ viewer_result_isclosed
    /\ \A s \in Side, i \in Point :
           /\ ~undo_buttons[s][i].control_point_widget
           /\ ~undo_buttons[s][i].enabled
           /\ undo_buttons[s][i].is_undo
    /\ \A widget \in {"result_apply_button", "result_save_button",
                      "result_batch_select_button", "result_batch_folder_button",
                      "result_batch_save_button"} : ~isEnabled(widget)
    /\ filepaths_batch = None
    /\ folderpath_batch = None

\* C21: a confirmed close of the target image also closes the moving image
\* and the result and resets the control points: the eight undo buttons are
\* detached, disabled and in Undo mode, Apply, Save and the batch controls
\* are disabled and the batch's files and folder are cleared; a cancelled
\* close changes nothing.
C21_CloseTargetResetsAll ==
    [][ last'.op = "close_viewer_reference"
            => IF last'.returned = AcceptRole
               THEN all_closed_and_reset'
               ELSE UNCHANGED <<fs, budget, varsWindow, varsViewers, varsImages,
                                varsItems, varsArrays, varsResult, varsFile, grabbed,
                                timers, varsBatch>> ]_vars

\* the target has been closed, after a moving image had been opened and a
\* point dragged: nothing is open and everything is reset
C21_Witness ==
    /\ last.op = "close_viewer_reference"
    /\ last.returned = AcceptRole
    /\ all_closed_and_reset
    /\ image.toregister_width > 0
    /\ budget < MaxMoves

\* C26: whenever Save is enabled a result is open and the registered image
\* was computed from the control points of both sides as they are: no
\* control point has changed its position since the Apply that made the
\* image Save would write.
C26_SaveWritesCurrentResult ==
    enabled.result_save_button
        => /\ ~viewer_result_isclosed
           /\ image_registered.image = fullpath_toregister
           /\ image_registered.transform =
                  getPerspectiveTransform(positions(registration_points["toregister"]),
                                          positions(registration_points["reference"]))

\* a point was dragged and the result applied and, the user's gestures
\* spent, Save is enabled
C26_Witness ==
    /\ enabled.result_save_button
    /\ enabled.result_widget
    /\ last.op = "register_and_load_result"
    /\ budget = 0
    /\ \E s \in Side : travel_log[s][1].from # travel_log[s][1].to

\* C28: whenever the button "Register and save batch" is enabled, a moving
\* image is loaded and both a list of batch files and a destination folder
\* are selected
C28_BatchSaveNeedsSelections ==
    isEnabled("result_batch_save_button") =>
        /\ ~viewer_toregister_isclosed
        /\ filepaths_batch # None
        /\ folderpath_batch # None

\* the button is enabled after the files were selected once more
C28_Witness ==
    /\ isEnabled("result_batch_save_button")
    /\ last.op = "select_batch_files"

(***************************************************************************)
(* Properties of a batch run followed file by file (under SpecBatchRun).   *)
(***************************************************************************)
\* C22: a batch run never changes the registration state: the control
\* points of both sides, the moving image's raw dimensions and the target's
\* dimensions are the same after save_batch as before it, no event processed
\* between two files of the run changes them, and every file of a run is
\* warped with the same transform.
C22_BatchRunKeepsRegistration ==
    [][ /\ (batch.running \/ batch'.running)
               => UNCHANGED <<registration_points, points_reference, points_toregister,
                              image>>
        /\ \A j, k \in 1..Len(batch'.outputs) :
               batch'.outputs[j].image.transform = batch'.outputs[k].image.transform ]_vars

\* after a drag, a run has registered and written two files and has ended:
\* the control points are where they were when it began
C22_Witness ==
    /\ last.op = "save_batch"
    /\ batch.completed
    /\ Len(batch.outputs) = 2
    /\ both_positions = last.before
    /\ \E s \in Side : travel_log[s][1].from # travel_log[s][1].to

\* C24: a file of a batch is recorded as succeeded only if its registered
\* image was written: a file whose write fails is not in the list of the
\* successful files, the list that is saved as the moving filenames of the
\* auto-saved control points.
C24_SucceededOnlyIfWritten ==
    last.op = "save_batch" =>
        \A k \in 1..Len(batch.fullpaths_successful) :
            \E w \in written :
                w.path = generate_registered_fullpath(folderpath_batch,
                                                      batch.fullpaths_successful[k])

\* a run into a folder that can be written has ended: the two files it
\* recorded as succeeded are on the disk
C24_Witness ==
    /\ last.op = "save_batch"
    /\ batch.completed
    /\ writable(folderpath_batch \o <<"/">>)
    /\ Len(batch.fullpaths_successful) = 2
    /\ \A k \in 1..2 :
           \E w \in written :
               w.path = generate_registered_fullpath(folderpath_batch,
                                                     batch.fullpaths_successful[k])

(***************************************************************************)
(* Properties of malformed control-point files (under SpecMalformed).      *)
(***************************************************************************)
\* C25: the load of a file that holds the row "target" and is malformed
\* after it (header rows missing, a coordinate row of fewer than four fields
\* or with a field that is not a number) is aborted with an error shown: no
\* exception escapes, the overlay is hidden again, the window is enabled and
\* the control points are where they were.
C25_MalformedFileIsRecoverable ==
    (last.op = "on_click_load_points" /\ last.file \in MalformedFiles)
        => /\ exception = "none"
           /\ ~loading_grayout_label
           /\ window_enabled
           /\ last.boxes # {}
           /\ both_positions = last.before

\* a file whose last coordinate row has two fields was loaded after a drag:
\* the control points are where they were
C25_Witness ==
    /\ last.op = "on_click_load_points"
    /\ last.file = with_last_row(saved_here, << str(1000), str(2000) >>)
    /\ both_positions = last.before
    /\ \E s \in Side : travel_log[s][1].from # travel_log[s][1].to

====
